---------------------------- MODULE Spec2Model ----------------------------
(***************************************************************************)
(* Verification model of the Discord channel exporter.                     *)
(*                                                                         *)
(*   SpecDL   the asset downloader of lib/fileProcessor.js driven by a     *)
(*            sequence of processMessages calls that share one job's       *)
(*            downloadCache.                                               *)
(*   SpecJob  runExportProcess of server.js alone, for every channel        *)
(*            history and MAX_BATCHES setting.                             *)
(*   SpecSSE  the SSE registry (activeJobs, sendJobUpdate, GET             *)
(*            /export-status) with the job of an empty channel.            *)
(*   SpecLive SpecJob without fetch errors, with weak fairness of the      *)
(*            background job (the Node event loop runs every continuation).*)
(*   SpecApi  makeDiscordRequest of lib/discordApi.js against a server     *)
(*            that may answer 429.                                         *)
(*   SpecRewrite  processMessages and processDataRecursively of            *)
(*            lib/fileProcessor.js on one string or one object graph.      *)
(*   SpecStart several exports started by POST /start-export over time.    *)
(*   SpecPath one download, its relative path computed as text.            *)
(***************************************************************************)
EXTENDS Integers, Sequences, FiniteSets, TLC

VARIABLES
    \* ---- downloader (lib/fileProcessor.js) ----
    downloadCache,   \* Map url -> relative path of the job
    disk,            \* files below <exportDir>/downloaded_files: <<dir, name>> -> bytes
    getCount,        \* per url: HTTP GETs issued by downloadAndDeduplicateFile
    okCount,         \* per url: calls that downloaded and cached the url
    failCount,       \* download calls that threw
    seenUrls,        \* urls handed to downloadAndDeduplicateFile so far
    returned,        \* per url: the relative paths calls returned for it
    gotContent,      \* per cached url: the bytes its download received and the batch
    lastCall,        \* the last download call: its url and whether the cache answered
    tempDir,         \* the last download call: its staging directory and exit path
    calls,           \* number of download calls so far
    batchNo,         \* number of processMessages calls started
    inBatch,         \* a processMessages call is running
    \* ---- SSE registry (server.js) ----
    activeJobs,      \* { jobId: [res1, res2, ...] }
    sink,            \* per response object: idle, open, broken, destroyed, ended, closed
    sinkJob,         \* per response object: the jobId of its request
    received,        \* per response object: the events written to it while it lives
    jobLog,          \* the statuses runExportProcess has published, in order
    ackCount,        \* per jobId: connected acknowledgments published
    since,           \* per response object: events published before it subscribed
    \* ---- runExportProcess (server.js) ----
    jobPc,           \* where the background job stands
    history,         \* number of messages of the channel (ids 1..history, newest last)
    maxBatchesEnv,   \* process.env.MAX_BATCHES
    delayEnv,        \* process.env: its FETCH_DELAY_MS and FETCH_DEPLAY_MS
    beforeId,        \* cursor of the next fetch (0 is null)
    batchIndex,
    totalMessagesFetched,
    messages,        \* the batch being handled
    batches,         \* the non-empty batches fetched so far
    fetchLog,        \* every fetchMessagesBatch call: batch, cursor, attempt, wait before it
    lastSleep,       \* ms slept since the last fetch attempt
    markers,         \* marker files in the export directory
    writeFails,      \* marker writes that were rejected
    capHit,          \* the loop was left through the MAX_BATCHES check
    downloadsDir,    \* downloaded_files: absent, present, moved
    dlEvents,        \* downloads of the current batch that have settled
    processedFiles,  \* processed_messages/: <<batchIndex, messages>> of each file written
    inFlight,        \* downloads of the batch that were started and have not settled
    htmlOut,         \* processed_html/: its directory, generateHtmlFiles' outcome, its pages
    \* makeDiscordRequest
    apiPc,           \* where the call stands
    apiRequest,      \* url and method the caller passed
    apiIssued,       \* the requests sent, in order
    apiResponses,    \* the responses to them
    apiWaits,        \* ms waited after each 429
    apiError,        \* the error thrown to the caller
    \* processMessages on one batch
    rwEntry,         \* the function the batch is handed to
    rwGraph,         \* the object graph of the batch
    rwPc,            \* where the call stands
    rwCause,         \* what made it throw
    rwOrig,          \* the content string of the message
    rwCur,           \* currentString
    rwDone,          \* downloads of the walk made so far
    rwFailed,        \* match sites whose download failed (0: the avatar)
    rwCache,         \* keys of downloadCache: <<url>> of a string, the image url of an emote
    rwUser,          \* the author object of the message as fetched
    rwAvatar,        \* author.avatar of the object the walk works on
    rwAuthor,        \* what the walk did on the author node
    rwRaw,           \* author.avatar of the caller's raw message
    rwTree,          \* shape of the value returned
    rwNet,           \* the last match: was its url cached, requests issued, resolved
    \* several exports
    now,             \* the clock, in ms
    exports,         \* the exports started: channel, jobId, directory, running
    subscribers,     \* activeJobs of these exports: jobId -> observers
    watching,        \* per observer: the export whose page opened it (0: none)
    gotFrom,         \* per observer: the exports whose events it received
    dirFiles,        \* per export directory: the exports that wrote into it
    \* one download, its path as text
    pathIn,          \* platform, directory, url extension, forced extension, bytes
    pathPc,          \* idle, called, returned, threw
    pathOut,         \* the relative path returned
    pathCache        \* the download cache of this call

dlVars == <<downloadCache, disk, getCount, okCount, failCount, seenUrls,
            returned, gotContent, lastCall, calls, batchNo, inBatch, tempDir>>

sseVars == <<activeJobs, sink, sinkJob, received, jobLog, ackCount, since>>

jobVars == <<jobPc, history, maxBatchesEnv, delayEnv, beforeId, batchIndex, totalMessagesFetched,
             messages, batches, fetchLog, lastSleep, markers, writeFails, capHit,
             downloadsDir, dlEvents, processedFiles, htmlOut, inFlight>>

apiVars == <<apiPc, apiRequest, apiIssued, apiResponses, apiWaits, apiError>>

rwVars == <<rwEntry, rwGraph, rwPc, rwCause, rwOrig, rwCur, rwDone, rwFailed, rwCache,
            rwUser, rwAvatar, rwTree, rwNet, rwRaw,
            rwAuthor>>

startVars == <<now, exports, subscribers, watching, gotFrom, dirFiles>>

pathVars == <<pathIn, pathPc, pathOut, pathCache>>

vars == <<dlVars, sseVars, jobVars, apiVars, rwVars, startVars, pathVars>>

-----------------------------------------------------------------------------
(* Bounds *)

MaxCalls == 3
MaxProcessCalls == 2
MaxHistory == 2
MaxDlEvents == 2
MaxRequests == 3
MaxTokens == 3
MaxExports == 2
MaxClock == 1001
MaxExtLen == 3

-----------------------------------------------------------------------------
(* Data the downloader works on *)

\* forcedExtension = null (also the empty string: both are falsy)
NoExt == << >>

Png == <<".", "p", "n", "g">>
PngUpper == <<".", "P", "N", "G">>
Jpg == <<".", "j", "p", "g">>

\* A url is its text up to the extension plus path.extname of its pathname.
AttachmentUrls ==
    { [base |-> "https://cdn/a/x", ext |-> Png],
      [base |-> "https://cdn/a/y", ext |-> PngUpper],
      [base |-> "https://cdn/a/z", ext |-> Jpg] }

AvatarUrl == [base |-> "https://cdn.discordapp.com/avatars/1/hash", ext |-> Png]

Urls == AttachmentUrls \cup {AvatarUrl}

\* The call sites of downloadAndDeduplicateFile: the string branch of the
\* rewriter (attachments, no forced extension; an avatar url written in a
\* message text is matched there too) and processUserAvatar.
Requests ==
    [url : Urls, dir : {"attachments"}, forced : {NoExt}]
    \cup { [url |-> AvatarUrl, dir |-> "avatars", forced |-> <<"p", "n", "g">>] }

Contents == {"bytesA", "bytesB"}

\* What a failed copyFile may leave at the destination.
Partial == "truncated"

MD5(c) ==
    CASE c = "bytesA" -> "0cc175b9"
      [] c = "bytesB" -> "92eb5ffe"
      [] OTHER -> "d41d8cd9"

toLowerCase(c) ==
    CASE c = "P" -> "p"
      [] c = "N" -> "n"
      [] c = "G" -> "g"
      [] c = "J" -> "j"
      [] OTHER -> c

ExtChars == {"p", "n", "g", "j", "i", "f", "."}

\* forcedExtension.startsWith('.') ? forcedExtension : `.${forcedExtension}`,
\* else path.extname of the url's pathname
DerivedExtension(url, forced) ==
    IF forced # NoExt
    THEN IF Head(forced) = "." THEN forced ELSE <<".">> \o forced
    ELSE url.ext

RECURSIVE BeforeQuery(_)
\* text.split('?')[0]
BeforeQuery(text) ==
    IF text = << >> \/ Head(text) = "?" THEN << >>
    ELSE <<Head(text)>> \o BeforeQuery(Tail(text))

\* Mutant: the extension is used as derived.
FinalExtUnsanitised(derived) == derived

\* derivedExtension.split('?')[0].toLowerCase().replace(/[^a-z0-9.]/g, '')
\* or '.unknown'
FinalExt(derived) ==
    IF Len(derived) > 1
    THEN LET cut == BeforeQuery(derived)
             lower == [i \in 1..Len(cut) |-> toLowerCase(cut[i])]
             Keep(c) == c \in ExtChars
         IN  SelectSeq(lower, Keep)
    ELSE <<".", "u", "n", "k", "n", "o", "w", "n">>

\* Mutant: the promoted file is named per download, not by its content alone.
FinalFileNamePerCall(fileHash, finalExt) == <<fileHash, finalExt, calls>>

\* `${fileHash}${finalExt}`
FinalFileName(fileHash, finalExt) == <<fileHash, finalExt>>

\* path.join(targetDirectory, finalFileName), below <exportDir>/downloaded_files
FinalAbsolutePath(dir, fileName) == <<dir, fileName>>

\* path.relative(baseExportDir, finalAbsolutePath).split(path.sep).join('/')
RelativePath(dir, fileName) == <<"downloaded_files", dir, fileName>>

\* Mutant: the cache is never consulted.
CacheNeverHit(cache, url) == FALSE

\* downloadCache.has(url)
CacheHit(cache, url) == url \in DOMAIN cache

\* Mutant: the path of a finished download is not recorded.
CacheSetDropped(cache, url, relativePath) == cache

\* downloadCache.set(url, relativePath)
CacheSet(cache, url, relativePath) ==
    [u \in DOMAIN cache \cup {url} |-> IF u = url THEN relativePath ELSE cache[u]]

Remember(f, k, v) == [x \in DOMAIN f \cup {k} |-> IF x = k THEN v ELSE f[x]]

\* fs.access(finalAbsolutePath, F_OK) resolved
FileExisted(files, abs) == abs \in DOMAIN files

WriteFile(files, abs, bytes) ==
    [p \in DOMAIN files \cup {abs} |-> IF p = abs THEN bytes ELSE files[p]]

-----------------------------------------------------------------------------
(* processMessages and downloadAndDeduplicateFile *)

\* processMessages is called with the next batch and the job's cache.
processMessagesBegin ==
    /\ ~inBatch
    /\ batchNo < MaxProcessCalls
    /\ inBatch' = TRUE
    /\ batchNo' = batchNo + 1
    /\ UNCHANGED <<downloadCache, disk, getCount, okCount, failCount, seenUrls,
                   returned, gotContent, lastCall, calls, tempDir>>
    /\ UNCHANGED <<sseVars, jobVars, apiVars, rwVars, startVars, pathVars>>

\* processDataRecursively has walked the whole batch.
processMessagesEnd ==
    /\ inBatch
    /\ inBatch' = FALSE
    /\ UNCHANGED <<downloadCache, disk, getCount, okCount, failCount, seenUrls,
                   returned, gotContent, lastCall, calls, batchNo, tempDir>>
    /\ UNCHANGED <<sseVars, jobVars, apiVars, rwVars, startVars, pathVars>>

Called(req) ==
    /\ inBatch
    /\ calls < MaxCalls
    /\ calls' = calls + 1
    /\ lastCall' = [url |-> req.url, hit |-> CacheHit(downloadCache, req.url)]
    /\ seenUrls' = seenUrls \cup {req.url}
    /\ UNCHANGED <<batchNo, inBatch>>
    /\ UNCHANGED <<sseVars, jobVars, apiVars, rwVars, startVars, pathVars>>

Threw ==
    /\ failCount' = failCount + 1
    /\ UNCHANGED <<downloadCache, okCount, returned, gotContent>>

GetIssued(url) == getCount' = [getCount EXCEPT ![url] = @ + 1]

\* outcomes of fs.rm(tempDir, { recursive: true, force: true })
RmOutcomes == {"removed", "rejected"}

\* Mutant: the staging directory is removed on the paths that return only.
TempDirLeftOnError(made, exit, rm) ==
    made /\ (rm = "rejected" \/ exit \notin {"dedupSkip", "rename", "copy"})

\* finally: if (tempDir) fs.rm(tempDir, ...), a rejection is logged only.
\* TRUE when the directory is still there after the call.
TempDirLeft(made, exit, rm) == made /\ rm = "rejected"

\* The call leaves by `exit`; `made` tells whether fs.mkdtemp had resolved.
Cleanup(made, exit) ==
    \E rm \in RmOutcomes :
        /\ ~made => rm = "removed"
        /\ tempDir' = [made |-> made, exit |-> exit,
                       exists |-> TempDirLeft(made, exit, rm),
                       rmRejected |-> made /\ rm = "rejected"]

\* Cache check: the cached path is returned, nothing else happens.
DownloadCacheHit(req) ==
    /\ Called(req)
    /\ CacheHit(downloadCache, req.url)
    /\ returned' = [returned EXCEPT ![req.url] = @ \cup {downloadCache[req.url]}]
    /\ Cleanup(FALSE, "cacheHit")
    /\ UNCHANGED <<downloadCache, disk, getCount, okCount, failCount, gotContent>>

\* fs.mkdtemp or fs.mkdir(targetDirectory) rejects: no request is sent.
DownloadFailBeforeGet(req) ==
    /\ Called(req)
    /\ ~CacheHit(downloadCache, req.url)
    /\ Threw
    /\ \/ Cleanup(FALSE, "mkdtempFailed")
       \/ Cleanup(TRUE, "mkdirFailed")
    /\ UNCHANGED <<disk, getCount>>

\* axiosInstance.get rejects (network error, timeout, non-2xx status) or the
\* response stream fails while it is written and hashed.
DownloadGetFail(req) ==
    /\ Called(req)
    /\ ~CacheHit(downloadCache, req.url)
    /\ GetIssued(req.url)
    /\ Threw
    /\ Cleanup(TRUE, "getFailed")
    /\ UNCHANGED disk

\* The body `bytes` was streamed to the temp file and hashed; promotion into
\* targetDirectory: fs outcome `fsOutcome` applies when the file is new.
DownloadPromote(req, bytes, fsOutcome) ==
    LET finalExt == FinalExt(DerivedExtension(req.url, req.forced))
        fileName == FinalFileName(MD5(bytes), finalExt)
        abs == FinalAbsolutePath(req.dir, fileName)
        relativePath == RelativePath(req.dir, fileName)
        fileExisted == FileExisted(disk, abs)
        stored ==
            /\ downloadCache' = CacheSet(downloadCache, req.url, relativePath)
            /\ okCount' = [okCount EXCEPT ![req.url] = @ + 1]
            /\ returned' = [returned EXCEPT ![req.url] = @ \cup {relativePath}]
            /\ gotContent' = Remember(gotContent, req.url, [bytes |-> bytes, batch |-> batchNo])
            /\ UNCHANGED failCount
    IN  /\ Called(req)
        /\ ~CacheHit(downloadCache, req.url)
        /\ GetIssued(req.url)
        /\ IF fileExisted
           THEN \* content already stored: the temp file is discarded
                /\ fsOutcome = "rename"
                /\ UNCHANGED disk
                /\ stored
                /\ Cleanup(TRUE, "dedupSkip")
           ELSE CASE fsOutcome = "rename" ->
                        /\ disk' = WriteFile(disk, abs, bytes)
                        /\ stored
                        /\ Cleanup(TRUE, "rename")
                  [] fsOutcome = "EXDEV_copy" ->
                        /\ disk' = WriteFile(disk, abs, bytes)
                        /\ stored
                        /\ Cleanup(TRUE, "copy")
                  [] fsOutcome = "EXDEV_copyFailed" ->
                        \* copyFile rejected: nothing or a truncated file is left
                        /\ \/ UNCHANGED disk
                           \/ disk' = WriteFile(disk, abs, Partial)
                        /\ Threw
                        /\ Cleanup(TRUE, "copyFailed")
                  [] OTHER ->
                        \* rename rejected with another code: rethrown
                        /\ UNCHANGED disk
                        /\ Threw
                        /\ Cleanup(TRUE, "renameFailed")

FsOutcomes == {"rename", "EXDEV_copy", "EXDEV_copyFailed", "renameFailed"}

downloadAndDeduplicateFile(req) ==
    \/ DownloadCacheHit(req)
    \/ DownloadFailBeforeGet(req)
    \/ DownloadGetFail(req)
    \/ \E bytes \in Contents, fsOutcome \in FsOutcomes :
           DownloadPromote(req, bytes, fsOutcome)

InitDownloader ==
    /\ downloadCache = << >>
    /\ disk = << >>
    /\ getCount = [u \in Urls |-> 0]
    /\ okCount = [u \in Urls |-> 0]
    /\ failCount = 0
    /\ seenUrls = {}
    /\ returned = [u \in Urls |-> {}]
    /\ gotContent = << >>
    /\ lastCall = [url |-> AvatarUrl, hit |-> FALSE]
    /\ calls = 0
    /\ tempDir = [made |-> FALSE, exit |-> "none", exists |-> FALSE, rmRejected |-> FALSE]
    /\ batchNo = 0
    /\ inBatch = FALSE

-----------------------------------------------------------------------------
(* processMessages, processDataRecursively *)

\* What a string node is made of: attachment URLs, emote markdown, other text.
UrlTokens == {"https://cdn.example/a.png", "https://cdn.example/b.jpg"}
EmoteTokens == {"<:smile:12345678901234567>"}
TextTokens == {"hello"}
Tokens == UrlTokens \cup EmoteTokens \cup TextTokens

RECURSIVE SeqsUpTo(_, _)
SeqsUpTo(S, n) ==
    IF n = 0 THEN {<< >>}
    ELSE LET shorter == SeqsUpTo(S, n - 1)
         IN  shorter \cup {Append(q, x) : q \in {r \in shorter : Len(r) = n - 1}, x \in S}

Strings == SeqsUpTo(Tokens, MaxTokens) \ {<< >>}

\* The batch handed to the rewriter: an array holding one message object with
\* a content string and an author; in the second graph the message also
\* refers to itself.
Node(kind, kids) == [kind |-> kind, kids |-> kids]

TreeGraph ==
    [n \in {"root", "msg", "content", "author"} |->
        CASE n = "root" -> Node("array", <<"msg">>)
          [] n = "msg" -> Node("object", <<"content", "author">>)
          [] n = "content" -> Node("string", << >>)
          [] n = "author" -> Node("object", << >>)]

CyclicGraph == [TreeGraph EXCEPT !["msg"] = Node("object", <<"content", "author", "msg">>)]

Graphs == {TreeGraph, CyclicGraph}

RECURSIVE OnCycle(_, _, _)
\* JSON.stringify meets an object that is one of its own ancestors
OnCycle(graph, n, ancestors) ==
    \/ n \in ancestors
    \/ \E i \in DOMAIN graph[n].kids : OnCycle(graph, graph[n].kids[i], ancestors \cup {n})

IsCircular(graph) == OnCycle(graph, "root", {})

CircularReference == "[Circular Reference]"

RECURSIVE Walk(_, _, _)
\* The shape processDataRecursively returns: strings and objects are rebuilt,
\* an object found in `seen` (added on entry, deleted on return: the
\* ancestors) becomes the sentinel.
Walk(graph, n, seen) ==
    IF graph[n].kind = "string" THEN [node |-> n, kids |-> << >>]
    ELSE IF n \in seen THEN [node |-> CircularReference, kids |-> << >>]
    ELSE [node |-> n,
          kids |-> [i \in DOMAIN graph[n].kids |->
                      Walk(graph, graph[n].kids[i], seen \cup {n})]]

RECURSIVE HasSentinel(_)
HasSentinel(tree) ==
    \/ tree.node = CircularReference
    \/ \E i \in DOMAIN tree.kids : HasSentinel(tree.kids[i])

\* no match processed yet
NoMatch == [kind |-> "none", cached |-> FALSE, heads |-> 0, gets |-> 0, resolved |-> FALSE]

\* path downloadAndDeduplicateFile resolves a URL to
LocalPath(url) == <<"downloaded_files/attachments", url>>

\* EMOTE_MARKER:<relative path>|<name>
EmoteMarker(emote) == <<"EMOTE_MARKER:", emote>>

\* Mutant: the replacement is made at the match site.
ReplaceAtSite(s, site, text, by) == [s EXCEPT ![site] = by]

\* currentString.replace(text, by): the first occurrence of `text` in the
\* current string is replaced, wherever the match was found
Replace(s, site, text, by) ==
    IF \E k \in DOMAIN s : s[k] = text
    THEN LET first == CHOOSE k \in DOMAIN s : s[k] = text /\ \A j \in 1..(k - 1) : s[j] # text
         IN  [s EXCEPT ![first] = by]
    ELSE s

\* The downloads of one message in the order the traversal makes them: the
\* URL matches of the content string, its emote matches, the author's avatar.
Sites(s, S) == SelectSeq([i \in DOMAIN s |-> i], LAMBDA i : s[i] \in S)

\* a URL of a GIF host that ends in a media extension
GifTokens == {"https://media.tenor.com/x.gif"}

\* what fileUrlRegex matches
FileUrlTokens == UrlTokens \cup GifTokens

\* gifDomains.test(currentString): the string holds a GIF-host URL somewhere
gifDomainsTest(s) == \E i \in DOMAIN s : s[i] \in GifTokens

\* if (!gifDomains.test(currentString)) { fileUrlMatches = ... }
UrlSites(s) == IF gifDomainsTest(s) THEN << >> ELSE Sites(s, FileUrlTokens)

Work(s) ==
    [i \in DOMAIN UrlSites(s) |-> [kind |-> "url", site |-> UrlSites(s)[i]]]
    \o [i \in DOMAIN Sites(s, EmoteTokens) |-> [kind |-> "emote", site |-> Sites(s, EmoteTokens)[i]]]
    \o <<[kind |-> "avatar", site |-> 0], [kind |-> "keys", site |-> 0]>>

\* Mutant: the call sites let the error of a failed download escape.
CallSiteRethrows == FALSE

\* try { await downloadAndDeduplicateFile(...) } catch { ... } at the three
\* call sites
CallSiteCatches == TRUE

NextWork == Work(rwOrig)[rwDone + 1]

RewriteFrame == UNCHANGED <<dlVars, sseVars, jobVars, apiVars, startVars, pathVars>>

\* A download of the walk threw.
DownloadFailed(site) ==
    /\ rwFailed' = rwFailed \cup {site}
    /\ IF CallSiteCatches
       THEN rwPc' = "walk" /\ rwDone' = rwDone + 1 /\ UNCHANGED rwCause
       ELSE rwPc' = "threw" /\ rwCause' = "download" /\ UNCHANGED rwDone

\* processMessages: the download directories are created, or mkdir rejects
processMessages(ok) ==
    /\ rwPc = "idle"
    /\ rwEntry = "processMessages"
    /\ IF ok THEN rwPc' = "copy" /\ UNCHANGED rwCause
       ELSE rwPc' = "threw" /\ rwCause' = "mkdir"
    /\ UNCHANGED <<rwEntry, rwGraph, rwOrig, rwCur, rwDone, rwFailed, rwCache,
                   rwUser, rwAvatar, rwTree, rwNet>>
    /\ UNCHANGED <<rwRaw, rwAuthor>>
    /\ RewriteFrame

\* const messagesCopy = JSON.parse(JSON.stringify(messagesArray))
JsonCopy ==
    /\ rwPc = "copy"
    /\ IF IsCircular(rwGraph)
       THEN rwPc' = "threw" /\ rwCause' = "TypeError"
       ELSE rwPc' = "walk" /\ UNCHANGED rwCause
    /\ UNCHANGED <<rwEntry, rwGraph, rwOrig, rwCur, rwDone, rwFailed, rwCache,
                   rwUser, rwAvatar, rwTree, rwNet>>
    /\ UNCHANGED <<rwRaw, rwAuthor>>
    /\ RewriteFrame

\* processDataRecursively handed the batch itself
processDataRecursively ==
    /\ rwPc = "idle"
    /\ rwEntry = "processDataRecursively"
    /\ rwPc' = "walk"
    /\ UNCHANGED <<rwEntry, rwGraph, rwOrig, rwCur, rwDone, rwFailed, rwCache,
                   rwUser, rwAvatar, rwTree, rwCause, rwNet>>
    /\ UNCHANGED <<rwRaw, rwAuthor>>
    /\ RewriteFrame

\* one iteration of `for (const match of fileUrlMatches)`
UrlMatch(ok) ==
    /\ rwPc = "walk"
    /\ rwDone < Len(Work(rwOrig))
    /\ NextWork.kind = "url"
    /\ LET site == NextWork.site
           originalUrl == rwOrig[site]
       IN  /\ <<originalUrl>> \in rwCache => ok
           /\ rwNet' = [kind |-> "url", cached |-> <<originalUrl>> \in rwCache, heads |-> 0,
                        gets |-> IF <<originalUrl>> \in rwCache THEN 0 ELSE 1,
                        resolved |-> ok]
           /\ IF ok
              THEN /\ rwCur' = Replace(rwCur, site, originalUrl, LocalPath(originalUrl))
                   /\ rwCache' = rwCache \cup {<<originalUrl>>}
                   /\ rwDone' = rwDone + 1
                   /\ UNCHANGED <<rwPc, rwCause, rwFailed>>
              ELSE /\ DownloadFailed(site)
                   /\ UNCHANGED <<rwCur, rwCache>>
    /\ UNCHANGED <<rwEntry, rwGraph, rwOrig, rwUser, rwAvatar, rwTree>>
    /\ UNCHANGED <<rwRaw, rwAuthor>>
    /\ RewriteFrame

\* the formats findEmoteUrl probes, in order
Extensions == <<"gif", "png", "webp", "jpg">>

\* `${baseUrl}.${ext}` of the k-th format
EmoteUrl(markdown, k) == <<"https://cdn.discordapp.com/emojis", markdown, Extensions[k]>>

\* Mutant: no format is probed for an emote whose image is in the cache.
HeadRequestsNoneWhenCached(cached, found) ==
    IF cached THEN 0 ELSE IF found = 0 THEN Len(Extensions) ELSE found

\* The HEAD requests findEmoteUrl issues when the `found`-th format is the
\* first whose request succeeds (0: none does): it knows of no cache
HeadRequests(cached, found) == IF found = 0 THEN Len(Extensions) ELSE found

\* one iteration of `for (const match of emoteMatches)`: processSingleEmote
\* returns the marker, or the markdown when the emote is not found or its
\* download throws
EmoteMatch(found, ok) ==
    /\ rwPc = "walk"
    /\ rwDone < Len(Work(rwOrig))
    /\ NextWork.kind = "emote"
    /\ LET site == NextWork.site
           originalMarkdown == rwOrig[site]
           cached == found # 0 /\ EmoteUrl(originalMarkdown, found) \in rwCache
       IN  /\ cached => ok
           /\ found = 0 => ~ok
           /\ rwNet' = [kind |-> "emote", cached |-> cached,
                        heads |-> HeadRequests(cached, found),
                        gets |-> IF found = 0 \/ cached THEN 0 ELSE 1,
                        resolved |-> ok]
           /\ IF ok
              THEN /\ rwCur' = Replace(rwCur, site, originalMarkdown, EmoteMarker(originalMarkdown))
                   /\ rwCache' = rwCache \cup {EmoteUrl(originalMarkdown, found)}
                   /\ rwDone' = rwDone + 1
                   /\ UNCHANGED <<rwPc, rwCause, rwFailed>>
              ELSE IF found = 0
              THEN \* emoteInfo is null: the markdown is returned, nothing throws
                   /\ rwFailed' = rwFailed \cup {site}
                   /\ rwDone' = rwDone + 1
                   /\ UNCHANGED <<rwPc, rwCause, rwCur, rwCache>>
              ELSE /\ DownloadFailed(site)
                   /\ UNCHANGED <<rwCur, rwCache>>
    /\ UNCHANGED <<rwEntry, rwGraph, rwOrig, rwUser, rwAvatar, rwTree>>
    /\ UNCHANGED <<rwRaw, rwAuthor>>
    /\ RewriteFrame

\* JSON values of the author object: null, a number, a string (its
\* characters), or no such property
Null == [type |-> "null", text |-> << >>]

Number == [type |-> "number", text |-> << >>]

Absent == [type |-> "absent", text |-> << >>]

Str(text) == [type |-> "string", text |-> text]

MIN_AVATAR_HASH_LENGTH == 10

\* a static avatar hash of n characters, and an animated one ('a_...')
Hash(n) == [i \in 1..n |-> "f"]

AnimatedHash(n) == <<"a", "_">> \o Hash(n - 2)

AvatarValues ==
    {Null, Number, Absent, Str(<< >>), Str(Hash(MIN_AVATAR_HASH_LENGTH - 1)),
     Str(AnimatedHash(MIN_AVATAR_HASH_LENGTH - 1)), Str(Hash(MIN_AVATAR_HASH_LENGTH)),
     Str(AnimatedHash(MIN_AVATAR_HASH_LENGTH))}

UserId == Str(<<"4", "2">>)

\* author objects: user-shaped ones with every avatar value, and ones whose
\* id or username is not a string
UserObjects ==
    {[id |-> UserId, username |-> Str(<<"u">>), avatar |-> a] : a \in AvatarValues}
    \cup {[id |-> Number, username |-> Str(<<"u">>),
            avatar |-> Str(Hash(MIN_AVATAR_HASH_LENGTH))],
          [id |-> UserId, username |-> Null, avatar |-> Str(Hash(MIN_AVATAR_HASH_LENGTH))]}

isUserObject(obj) ==
    /\ obj.id.type = "string"
    /\ obj.username.type = "string"
    /\ obj.avatar.type # "absent"

\* Mutant: the length of the hash is not checked.
TooShortNever(avatarHash) == FALSE

\* if (avatarHash.length < 10) return null
TooShort(avatarHash) == Len(avatarHash) < MIN_AVATAR_HASH_LENGTH

NoAvatarInfo == [url |-> << >>, ext |-> "none"]

\* avatarHash.startsWith('a_')
StartsWithA_(avatarHash) ==
    Len(avatarHash) >= 2 /\ avatarHash[1] = "a" /\ avatarHash[2] = "_"

constructAvatarCdnUrl(userId, avatarHash) ==
    IF avatarHash.type # "string" \/ avatarHash.text = << >> THEN NoAvatarInfo
    ELSE IF TooShort(avatarHash.text) THEN NoAvatarInfo
    ELSE LET format == IF StartsWithA_(avatarHash.text) THEN "gif" ELSE "png"
         IN [url |-> <<"https://cdn.discordapp.com/avatars", userId.text,
                       avatarHash.text, format, "size=128">>,
             ext |-> format]

\* what downloadAndDeduplicateFile returns for an avatar of that extension
LocalAvatarPath(ext) == Str(<<"downloaded_files", "avatars", ext>>)

\* Mutant: processMessages walks the array it was given.
WalkedObjectIsInput(entry) == "input"

\* processMessages walks messagesCopy = JSON.parse(JSON.stringify(messagesArray));
\* a direct call of processDataRecursively walks its argument
WalkedObject(entry) == IF entry = "processMessages" THEN "copy" ELSE "input"

\* processUserAvatar on the author of the message
processUserAvatar(ok) ==
    /\ rwPc = "walk"
    /\ rwDone < Len(Work(rwOrig))
    /\ NextWork.kind = "avatar"
    /\ LET avatarInfo == constructAvatarCdnUrl(rwUser.id, rwUser.avatar)
       IN IF ~isUserObject(rwUser)
          THEN \* the walk copies the field as it is
               /\ ok
               /\ rwDone' = rwDone + 1
               /\ rwNet' = NoMatch
               /\ UNCHANGED <<rwAvatar, rwPc, rwCause, rwFailed>>
          ELSE IF avatarInfo = NoAvatarInfo
          THEN /\ ok
               /\ rwAvatar' = Null
               /\ rwDone' = rwDone + 1
               /\ rwNet' = NoMatch
               /\ UNCHANGED <<rwPc, rwCause, rwFailed>>
          ELSE /\ IF ok
                  THEN /\ rwAvatar' = LocalAvatarPath(avatarInfo.ext)
                       /\ rwDone' = rwDone + 1
                       /\ UNCHANGED <<rwPc, rwCause, rwFailed>>
                  ELSE /\ rwAvatar' = Null
                       /\ DownloadFailed(0)
               /\ rwNet' = [kind |-> "avatar", cached |-> FALSE, heads |-> 0,
                            gets |-> 1, resolved |-> ok]
    \* userObj.avatar = ... writes to the object the walk was handed
    /\ rwRaw' = IF WalkedObject(rwEntry) = "input" THEN rwAvatar' ELSE rwRaw
    /\ rwAuthor' = IF isUserObject(rwUser)
                   THEN [rwAuthor EXCEPT !.resolved = @ + 1]
                   ELSE rwAuthor
    /\ UNCHANGED <<rwEntry, rwGraph, rwOrig, rwCur, rwCache, rwTree, rwUser>>
    /\ RewriteFrame

\* Mutant: the avatar key is handed to the generic recursion like any key.
AvatarKeyRecursed(value) == FALSE

\* if (key === 'avatar' && typeof data[key] === 'string') newObj[key] = data[key]
AvatarKeyCopied(value) == value.type = "string"

\* for (const key of Object.keys(data)) on the author object, after
\* processUserAvatar: a string avatar is copied, any other value goes through
\* processDataRecursively, where only a string is scanned for URLs and emotes
AuthorKeys ==
    /\ rwPc = "walk"
    /\ rwDone < Len(Work(rwOrig))
    /\ NextWork.kind = "keys"
    /\ rwAuthor' = [rwAuthor EXCEPT
                      !.keys = TRUE,
                      !.scanned = IF ~AvatarKeyCopied(rwAvatar) /\ rwAvatar.type = "string"
                                  THEN @ + 1 ELSE @]
    /\ rwDone' = rwDone + 1
    /\ UNCHANGED <<rwEntry, rwGraph, rwOrig, rwCur, rwFailed, rwCache, rwUser, rwAvatar,
                   rwTree, rwCause, rwNet, rwPc, rwRaw>>
    /\ RewriteFrame

\* the outermost processDataRecursively call returns processedData
WalkReturns ==
    /\ rwPc = "walk"
    /\ rwDone = Len(Work(rwOrig))
    /\ rwTree' = Walk(rwGraph, "root", {})
    /\ rwPc' = "returned"
    /\ UNCHANGED <<rwEntry, rwGraph, rwOrig, rwCur, rwDone, rwFailed, rwCache,
                   rwUser, rwAvatar, rwCause, rwNet>>
    /\ UNCHANGED <<rwRaw, rwAuthor>>
    /\ RewriteFrame

InitRewriteState ==
    /\ rwEntry = "processMessages"
    /\ rwGraph = TreeGraph
    /\ rwPc = "idle"
    /\ rwCause = "none"
    /\ rwOrig = <<"hello">>
    /\ rwCur = <<"hello">>
    /\ rwDone = 0
    /\ rwFailed = {}
    /\ rwCache = {}
    /\ rwUser = [id |-> UserId, username |-> Str(<<"u">>),
                 avatar |-> Str(Hash(MIN_AVATAR_HASH_LENGTH))]
    /\ rwAvatar = rwUser.avatar
    /\ rwRaw = rwUser.avatar
    /\ rwAuthor = [resolved |-> 0, scanned |-> 0, keys |-> FALSE]
    /\ rwTree = [node |-> "none", kids |-> << >>]
    /\ rwNet = NoMatch

-----------------------------------------------------------------------------
(* makeDiscordRequest *)

\* token, url and method of a call
ApiRequests == [url : {"/channels/1/messages", "/users/@me/guilds"},
                method : {"GET", "POST"}]

\* The retry-after header of a 429 response: no header, or the characters
\* of a number of seconds.
NoHeader == << >>
RetryAfterValues ==
    {NoHeader, <<"0">>, <<"1">>, <<"2">>, <<"0", ".", "5">>, <<"2", ".", "7">>}

\* What `await fetch(...)` settles with: a response (its status, its
\* retry-after header, what reading its body gives), or a rejection with the
\* name of the error (status 0).
Responses ==
    [status : {429}, retryAfter : RetryAfterValues, body : {"json"}, rejects : {"no"}]
    \cup [status : {200, 204}, retryAfter : {NoHeader}, body : {"json"}, rejects : {"no"}]
    \cup [status : {403, 500}, retryAfter : {NoHeader},
          body : {"json", "text", "unreadable"}, rejects : {"no"}]
    \cup [status : {0}, retryAfter : {NoHeader}, body : {"none"},
          rejects : {"TimeoutError", "TypeError"}]

NetworkError(resp) == resp.rejects # "no"

ApiErrorPrefix == "Discord API Error:"

NoError == [name |-> "none", prefix |-> "", status |-> 0, body |-> "none"]

\* errorBody: response.json(), else response.text(), else it stays null
ErrorBody(resp) == IF resp.body = "unreadable" THEN "null" ELSE resp.body

\* The error raised inside the try block for a response that is not ok, or by
\* a fetch that rejects.
Thrown(resp) ==
    IF NetworkError(resp)
    THEN [name |-> resp.rejects, prefix |-> "fetch failed", status |-> 0, body |-> "none"]
    ELSE [name |-> "Error", prefix |-> ApiErrorPrefix, status |-> resp.status,
          body |-> ErrorBody(resp)]

\* Mutant: the catch block wraps every error in a new Error.
CatchWrapsAll(error) ==
    [name |-> "Error", prefix |-> "Network or other error during Discord API request:",
     status |-> 0, body |-> "none"]

\* catch (error): an error whose message starts with 'Discord API Error:' is
\* rethrown, a timeout and any other error are replaced by a new Error
Catch(error) ==
    IF error.prefix = ApiErrorPrefix THEN error
    ELSE IF error.name = "TimeoutError"
    THEN [name |-> "Error", prefix |-> ApiErrorPrefix, status |-> 0, body |-> "none"]
    ELSE [name |-> "Error", prefix |-> "Network or other error during Discord API request:",
          status |-> 0, body |-> "none"]

RECURSIVE Catches(_, _)
\* The error on its way out of `depth` nested makeDiscordRequest calls.
Catches(error, depth) ==
    IF depth = 0 THEN error ELSE Catches(Catch(error), depth - 1)

\* response.ok
Ok(resp) == resp.status >= 200 /\ resp.status <= 299

Digits == [c \in {"0", "1", "2", "3", "4", "5", "6", "7", "8", "9"} |->
             CASE c = "0" -> 0 [] c = "1" -> 1 [] c = "2" -> 2 [] c = "3" -> 3
               [] c = "4" -> 4 [] c = "5" -> 5 [] c = "6" -> 6 [] c = "7" -> 7
               [] c = "8" -> 8 [] c = "9" -> 9]

RECURSIVE LeadingDigits(_)
LeadingDigits(chars) ==
    IF chars = << >> \/ Head(chars) \notin DOMAIN Digits THEN << >>
    ELSE <<Head(chars)>> \o LeadingDigits(Tail(chars))

RECURSIVE DecimalValue(_)
DecimalValue(digits) ==
    IF digits = << >> THEN 0
    ELSE 10 * DecimalValue(SubSeq(digits, 1, Len(digits) - 1))
         + Digits[digits[Len(digits)]]

\* parseInt(retryAfter, 10): the leading digits, whatever follows them
parseInt(chars) == DecimalValue(LeadingDigits(chars))

\* The number of milliseconds a header asks for (at most one decimal).
HeaderMs(chars) ==
    LET whole == LeadingDigits(chars)
        rest == SubSeq(chars, Len(whole) + 1, Len(chars))
    IN  1000 * DecimalValue(whole)
        + (IF Len(rest) >= 2 THEN 100 * Digits[rest[2]] ELSE 0)

SAFETY_MARGIN_MS == 500
DEFAULT_RETRY_MS == 5000

\* retryAfter ? parseInt(retryAfter, 10) * 1000 + 500 : 5000
RetryMs(retryAfter) ==
    IF retryAfter # NoHeader THEN parseInt(retryAfter) * 1000 + SAFETY_MARGIN_MS
    ELSE DEFAULT_RETRY_MS

\* a caller awaits makeDiscordRequest(token, url, method)
makeDiscordRequest(req) ==
    /\ apiPc = "idle"
    /\ apiRequest' = req
    /\ apiPc' = "fetch"
    /\ UNCHANGED <<apiIssued, apiResponses, apiWaits, apiError>>
    /\ UNCHANGED <<dlVars, sseVars, jobVars, rwVars, startVars, pathVars>>

\* await fetch(url, { method, headers, signal }) settles
Respond(resp) ==
    /\ apiPc = "fetch"
    \* the last request allowed is not answered with another 429
    /\ Len(apiIssued) + 1 = MaxRequests => resp.status # 429
    /\ apiIssued' = Append(apiIssued, apiRequest)
    /\ apiResponses' = Append(apiResponses, resp)
    /\ IF NetworkError(resp)
       THEN apiPc' = "threw" /\ apiError' = Catches(Thrown(resp), Len(apiIssued'))
       ELSE IF resp.status = 429
       THEN apiPc' = "wait" /\ UNCHANGED apiError
       ELSE IF ~Ok(resp)
       THEN apiPc' = "threw" /\ apiError' = Catches(Thrown(resp), Len(apiIssued'))
       ELSE apiPc' = "returned" /\ UNCHANGED apiError
    /\ UNCHANGED <<apiRequest, apiWaits>>
    /\ UNCHANGED <<dlVars, sseVars, jobVars, rwVars, startVars, pathVars>>

\* the timer of retryMs fires: return makeDiscordRequest(token, url, method)
RateLimitWait ==
    /\ apiPc = "wait"
    /\ apiWaits' = Append(apiWaits, RetryMs(apiResponses[Len(apiResponses)].retryAfter))
    /\ apiPc' = "fetch"
    /\ UNCHANGED <<apiRequest, apiIssued, apiResponses, apiError>>
    /\ UNCHANGED <<dlVars, sseVars, jobVars, rwVars, startVars, pathVars>>

InitApiState ==
    /\ apiPc = "idle"
    /\ apiRequest = [url |-> "", method |-> ""]
    /\ apiIssued = << >>
    /\ apiResponses = << >>
    /\ apiWaits = << >>
    /\ apiError = NoError

-----------------------------------------------------------------------------
(* SSE registry: activeJobs, sendJobUpdate, GET /export-status/:jobId *)

\* The response objects of the status route, in the order their requests
\* arrive.
SinkOrder == <<"res1", "res2">>
Sinks == {SinkOrder[i] : i \in DOMAIN SinkOrder}

\* The export started by POST /start-export, and another job id a client
\* may ask for.
JobId == "Export-1-1000"
OtherJobId == "Export-2-2000"
JobIds == {JobId, OtherJobId}

Terminal == {"error", "complete"}

Range(seq) == {seq[i] : i \in DOMAIN seq}

RemoveKey(f, k) == [x \in DOMAIN f \ {k} |-> f[x]]

\* The registry and the response objects as one value, so that a handler
\* that publishes several events is one step.
St == [aj |-> activeJobs, rcv |-> received, sk |-> sink, sj |-> sinkJob,
       log |-> jobLog, acks |-> ackCount]

SetSt(st) ==
    /\ activeJobs' = st.aj
    /\ received' = st.rcv
    /\ sink' = st.sk
    /\ sinkJob' = st.sj
    /\ jobLog' = st.log
    /\ ackCount' = st.acks

\* Mutant: every listed response is written to and kept.
WritableWhateverState(sk, s) == TRUE

\* !(res.writableEnded || res.destroyed), and res.write does not throw
Writable(sk, s) == sk[s] = "open"

\* Mutant: only the first response of the list is visited.
FilterVisitsFirstOnly(list) == IF list = << >> THEN << >> ELSE <<Head(list)>>

\* activeJobs[jobId].filter((res, index) => ...) visits every response
FilterVisits(list) == list

RECURSIVE WriteAll(_, _, _, _)
\* res.write(messageString) on every writable response, in list order
WriteAll(rcv, sk, list, ev) ==
    IF list = << >> THEN rcv
    ELSE LET s == Head(list)
             rcv2 == IF Writable(sk, s) THEN [rcv EXCEPT ![s] = Append(@, ev)] ELSE rcv
         IN  WriteAll(rcv2, sk, Tail(list), ev)

\* The event a sendJobUpdate call carries: who published it (the job or the
\* status route), its number among those, its status.
Event(st, jobId, status, by) ==
    [by |-> by, status |-> status,
     n |-> IF by = "job" THEN Len(st.log) + 1 ELSE st.acks[jobId] + 1]

sendJobUpdate(st, jobId, status, by) ==
    LET ev == Event(st, jobId, status, by)
        list == IF jobId \in DOMAIN st.aj THEN FilterVisits(st.aj[jobId]) ELSE << >>
        kept == SelectSeq(list, LAMBDA s : Writable(st.sk, s))
        logged == [st EXCEPT
                     !.log = IF by = "job" THEN Append(@, status) ELSE @,
                     !.acks = IF by = "job" THEN @ ELSE [@ EXCEPT ![jobId] = ev.n]]
    IN  IF jobId \notin DOMAIN st.aj THEN logged
        ELSE [logged EXCEPT
                !.rcv = WriteAll(st.rcv, st.sk, list, ev),
                \* a write that throws: res.end()
                !.sk = [s \in Sinks |->
                          IF s \in Range(list) /\ st.sk[s] = "broken"
                          THEN "ended" ELSE st.sk[s]],
                !.aj = IF kept = << >> THEN RemoveKey(st.aj, jobId)
                       ELSE [st.aj EXCEPT ![jobId] = kept]]

RECURSIVE sendJobUpdates(_, _, _)
\* Consecutive sendJobUpdate calls of runExportProcess with no await between
sendJobUpdates(st, jobId, statuses) ==
    IF statuses = << >> THEN st
    ELSE sendJobUpdates(sendJobUpdate(st, jobId, Head(statuses), "job"),
                        jobId, Tail(statuses))

\* Mutant: a new subscriber is first sent the job's earlier events.
SubscribeBacklogReplay(jobId) ==
    IF jobId = JobId
    THEN [i \in 1..Len(jobLog) |-> [by |-> "job", status |-> jobLog[i], n |-> i]]
    ELSE << >>

\* What the status route writes to the new response before the connected
\* acknowledgment: nothing, no event is stored
SubscribeBacklog(jobId) == << >>

\* GET /export-status/:jobId; the job id exists once the export was started
Subscribe(s, jobId) ==
    /\ sink[s] = "idle"
    /\ \A i \in DOMAIN SinkOrder :
         sink[SinkOrder[i]] = "idle" => \E k \in 1..i : SinkOrder[k] = s
    /\ jobId = JobId => jobPc # "idle"
    /\ since' = [since EXCEPT ![s] = [job |-> Len(jobLog), ack |-> ackCount[jobId]]]
    /\ LET list == IF jobId \in DOMAIN activeJobs THEN activeJobs[jobId] ELSE << >>
           pushed == [St EXCEPT
                        !.aj = [j \in DOMAIN activeJobs \cup {jobId} |->
                                  IF j = jobId THEN Append(list, s) ELSE activeJobs[j]],
                        !.rcv = [received EXCEPT ![s] = @ \o SubscribeBacklog(jobId)],
                        !.sk = [sink EXCEPT ![s] = "open"],
                        !.sj = [sinkJob EXCEPT ![s] = jobId]]
       IN  SetSt(sendJobUpdate(pushed, jobId, "connected", "http"))
    /\ UNCHANGED <<dlVars, jobVars, apiVars, rwVars, startVars, pathVars>>

\* The client goes away: the socket is destroyed, 'close' is not yet emitted.
ClientDisconnect(s) ==
    /\ sink[s] \in {"open", "broken"}
    /\ sink' = [sink EXCEPT ![s] = "destroyed"]
    /\ UNCHANGED <<activeJobs, sinkJob, received, jobLog, ackCount, since>>
    /\ UNCHANGED <<dlVars, jobVars, apiVars, rwVars, startVars, pathVars>>

\* The connection starts to fail: the next res.write throws.
WriteBreaks(s) ==
    /\ sink[s] = "open"
    /\ sink' = [sink EXCEPT ![s] = "broken"]
    /\ UNCHANGED <<activeJobs, sinkJob, received, jobLog, ackCount, since>>
    /\ UNCHANGED <<dlVars, jobVars, apiVars, rwVars, startVars, pathVars>>

\* Mutant: the close handler leaves the list as it is.
SpliceKeepsAll(list, s) == list

RECURSIVE Splice(_, _)
\* activeJobs[jobId].splice(indexOf(res), 1)
Splice(list, s) ==
    IF list = << >> THEN << >>
    ELSE IF Head(list) = s THEN Tail(list)
    ELSE <<Head(list)>> \o Splice(Tail(list), s)

\* req.on('close', ...); what the response had received is of no interest
\* once it is closed
CloseHandler(s) ==
    /\ sink[s] \in {"destroyed", "ended"}
    /\ LET jobId == sinkJob[s] IN
         IF jobId \in DOMAIN activeJobs
         THEN LET list == Splice(activeJobs[jobId], s) IN
                activeJobs' = IF list = << >> THEN RemoveKey(activeJobs, jobId)
                              ELSE [activeJobs EXCEPT ![jobId] = list]
         ELSE UNCHANGED activeJobs
    /\ sink' = [sink EXCEPT ![s] = "closed"]
    /\ received' = [received EXCEPT ![s] = << >>]
    /\ since' = [since EXCEPT ![s] = [job |-> 0, ack |-> 0]]
    /\ UNCHANGED <<sinkJob, jobLog, ackCount>>
    /\ UNCHANGED <<dlVars, jobVars, apiVars, rwVars, startVars, pathVars>>

InitRegistry ==
    /\ activeJobs = << >>
    /\ sink = [s \in Sinks |-> "idle"]
    /\ sinkJob = [s \in Sinks |-> JobId]
    /\ received = [s \in Sinks |-> << >>]
    /\ jobLog = << >>
    /\ ackCount = [j \in JobIds |-> 0]
    /\ since = [s \in Sinks |-> [job |-> 0, ack |-> 0]]

-----------------------------------------------------------------------------
(* POST /start-export: job ids and export directories of several exports *)

ChannelIds == {"111", "222"}
Observers == {"tab1", "tab2"}

MS_PER_SECOND == 1000

\* The clock readings told apart, in ms: within one millisecond, within one
\* second, and later.
ClockReadings == {0, 1, 999, 1000, MaxClock}

\* `Export-${channelId}-${Date.now()}`
MakeJobId(channelId, ms) == <<"Export", channelId, ms>>

\* new Date().toISOString().replace(/:/g, '-').replace(/\..+/, ''): the
\* milliseconds are cut off
Timestamp(ms) == ms \div MS_PER_SECOND

\* Mutant: the folder name keeps the milliseconds and the start order.
ExportFolderNameUnique(channelId, ms, nth) == <<channelId, ms, nth>>

\* `${safeChannelName}_${channelId}_${timestamp}`; the channel name is a
\* function of the channel id
ExportFolderName(channelId, ms, nth) == <<channelId, Timestamp(ms)>>

\* Mutant: the registry key also counts the exports started.
RegistryKeyUnique(channelId, ms, nth) == <<"Export", channelId, ms, nth>>

\* the key of activeJobs an export publishes under: its jobId
RegistryKey(channelId, ms, nth) == MakeJobId(channelId, ms)

Put(f, k, v) == [x \in DOMAIN f \cup {k} |-> IF x = k THEN v ELSE f[x]]

\* time passes
Tick(t) ==
    /\ t > now
    /\ now' = t
    /\ UNCHANGED <<exports, subscribers, watching, gotFrom, dirFiles>>
    /\ UNCHANGED <<dlVars, sseVars, jobVars, apiVars, rwVars, pathVars>>

\* POST /start-export: the job id is made, runExportProcess starts and
\* creates its directories under the export root
StartExport(channelId) ==
    /\ Len(exports) < MaxExports
    /\ LET nth == Len(exports) + 1
           dir == ExportFolderName(channelId, now, nth)
           e == [channelId |-> channelId, jobId |-> RegistryKey(channelId, now, nth),
                 exportDir |-> dir, running |-> TRUE]
       IN  /\ exports' = Append(exports, e)
           /\ dirFiles' = Put(dirFiles, dir,
                              (IF dir \in DOMAIN dirFiles THEN dirFiles[dir] ELSE {}) \cup {nth})
    /\ UNCHANGED <<now, subscribers, watching, gotFrom>>
    /\ UNCHANGED <<dlVars, sseVars, jobVars, apiVars, rwVars, pathVars>>

\* the page returned for export k opens GET /export-status/<its jobId>
Watch(o, k) ==
    /\ k \in DOMAIN exports
    /\ watching[o] = 0
    /\ LET jobId == exports[k].jobId IN
         subscribers' = Put(subscribers, jobId,
                            (IF jobId \in DOMAIN subscribers THEN subscribers[jobId] ELSE {})
                            \cup {o})
    /\ watching' = [watching EXCEPT ![o] = k]
    /\ UNCHANGED <<now, exports, gotFrom, dirFiles>>
    /\ UNCHANGED <<dlVars, sseVars, jobVars, apiVars, rwVars, pathVars>>

\* export k calls sendJobUpdate(jobId, ...)
ExportPublishes(k) ==
    /\ k \in DOMAIN exports
    /\ exports[k].running
    /\ LET jobId == exports[k].jobId IN
         gotFrom' = [o \in Observers |->
                       IF jobId \in DOMAIN subscribers /\ o \in subscribers[jobId]
                       THEN gotFrom[o] \cup {k} ELSE gotFrom[o]]
    /\ UNCHANGED <<now, exports, subscribers, watching, dirFiles>>
    /\ UNCHANGED <<dlVars, sseVars, jobVars, apiVars, rwVars, pathVars>>

\* runExportProcess of export k ends: finally { delete activeJobs[jobId] }
ExportEnds(k) ==
    /\ k \in DOMAIN exports
    /\ exports[k].running
    /\ exports' = [exports EXCEPT ![k].running = FALSE]
    /\ subscribers' = RemoveKey(subscribers, exports[k].jobId)
    /\ UNCHANGED <<now, watching, gotFrom, dirFiles>>
    /\ UNCHANGED <<dlVars, sseVars, jobVars, apiVars, rwVars, pathVars>>

InitStartState ==
    /\ now = 0
    /\ exports = << >>
    /\ subscribers = << >>
    /\ watching = [o \in Observers |-> 0]
    /\ gotFrom = [o \in Observers |-> {}]
    /\ dirFiles = << >>

-----------------------------------------------------------------------------
(* The relative path of a promoted file, character by character *)

\* Characters an extension may be made of; "P" and "g" stand for the letters.
ExtAlphabet == {".", "/", "\\", "?", "P", "g"}

ExtTexts == SeqsUpTo(ExtAlphabet, MaxExtLen)

\* path.extname gives "" or a text that starts with "." and has no "/"
ExtNames == {e \in ExtTexts : e = << >> \/ (Head(e) = "." /\ "/" \notin Range(e))}

Platforms == {"posix", "win32"}

\* what path.join and path.relative take for a separator
IsSep(platform, c) == c = "/" \/ (platform = "win32" /\ c = "\\")

Dot == <<".">>
DotDot == <<".", ".">>

RECURSIVE SplitSegs(_, _)
\* the segments of a path text
SplitSegs(platform, text) ==
    IF text = << >> THEN << << >> >>
    ELSE LET rest == SplitSegs(platform, Tail(text)) IN
           IF IsSep(platform, Head(text)) THEN << << >> >> \o rest
           ELSE << <<Head(text)>> \o Head(rest) >> \o Tail(rest)

RECURSIVE Normalize(_, _)
\* path.normalize of an absolute path: empty and "." segments go, ".."
\* removes the segment before it
Normalize(segs, acc) ==
    IF segs = << >> THEN acc
    ELSE LET s == Head(segs) IN
           Normalize(Tail(segs),
                     CASE s = << >> \/ s = Dot -> acc
                       [] s = DotDot -> IF acc = << >> THEN acc
                                        ELSE SubSeq(acc, 1, Len(acc) - 1)
                       [] OTHER -> Append(acc, s))

\* baseExportDir and targetDirectory, as segments below the root
BaseExportDirSegs == << <<"Exports">>, <<"general_111_t">> >>
TargetDirectorySegs(dir) == BaseExportDirSegs \o << <<"downloaded_files">>, <<dir>> >>

\* path.join(targetDirectory, finalFileName)
PathJoin(platform, dirSegs, text) == Normalize(dirSegs \o SplitSegs(platform, text), << >>)

RECURSIVE CommonPrefix(_, _)
CommonPrefix(a, b) ==
    IF a = << >> \/ b = << >> \/ Head(a) # Head(b) THEN 0
    ELSE 1 + CommonPrefix(Tail(a), Tail(b))

\* path.relative(from, to)
PathRelative(from, to) ==
    LET k == CommonPrefix(from, to) IN
      [i \in 1..(Len(from) - k) |-> DotDot] \o SubSeq(to, k + 1, Len(to))

RECURSIVE JoinSlash(_)
\* .split(path.sep).join('/')
JoinSlash(segs) ==
    IF segs = << >> THEN << >>
    ELSE IF Len(segs) = 1 THEN Head(segs)
    ELSE Head(segs) \o <<"/">> \o JoinSlash(Tail(segs))

\* the text of `${fileHash}${finalExt}`
FileNameText(fileName) == <<fileName[1]>> \o fileName[2]

\* relativePath of step 5, as text
RelativePathText(platform, dir, fileName) ==
    JoinSlash(PathRelative(BaseExportDirSegs,
                           PathJoin(platform, TargetDirectorySegs(dir), FileNameText(fileName))))

\* the text of the path the downloader model returns for the same file
AbstractPathText(rel) == <<rel[1], "/", rel[2], "/">> \o FileNameText(rel[3])

\* A call has a forced extension, which overrides the url's, or none.
PathInputs ==
    [platform : Platforms, dir : {"attachments", "avatars", "emotes"},
     ext : ExtNames, forced : {NoExt}, bytes : Contents]
    \cup [platform : Platforms, dir : {"attachments", "avatars", "emotes"},
          ext : {Png}, forced : ExtTexts \ {NoExt}, bytes : Contents]

\* One download that reaches step 5: the file is named and its relative path
\* is cached and returned.
PathStep ==
    /\ pathPc = "called"
    /\ LET url == [base |-> "https://cdn/a/x", ext |-> pathIn.ext]
           fileName == FinalFileName(MD5(pathIn.bytes),
                                     FinalExt(DerivedExtension(url, pathIn.forced)))
           relativePath == RelativePathText(pathIn.platform, pathIn.dir, fileName)
       IN  IF relativePath = << >>
           THEN /\ pathPc' = "threw"
                /\ UNCHANGED <<pathOut, pathCache>>
           ELSE /\ pathPc' = "returned"
                /\ pathOut' = relativePath
                /\ pathCache' = CacheSet(pathCache, url, relativePath)
    /\ UNCHANGED pathIn
    /\ UNCHANGED <<dlVars, sseVars, jobVars, apiVars, rwVars, startVars>>

InitPathState ==
    /\ pathIn = [platform |-> "posix", dir |-> "attachments", ext |-> << >>,
                 forced |-> << >>, bytes |-> "bytesA"]
    /\ pathPc = "idle"
    /\ pathOut = << >>
    /\ pathCache = << >>

-----------------------------------------------------------------------------
(* runExportProcess *)

\* process.env.MAX_BATCHES || null, when the variable is unset or empty
NoLimit == -1

\* A variable of process.env is undefined or a string.
Unset == << >>

Set(text) == <<text>>

\* the left operand of || is undefined or the empty string
Falsy(value) == value = Unset \/ value = Set("")

\* the number a string that is no numeral converts to in a comparison
NaN == -2

\* the conversion of the string operand of >= to a number
ToNumber(text) ==
    CASE text = "0" -> 0
      [] text = "1" -> 1
      [] text = "2" -> 2
      [] text = "3" -> 3
      [] OTHER -> NaN

\* Mutant: the limit is compared with > instead of >=.
AtLeastStrict(index, limit) == limit # NaN /\ index > limit

\* batchIndex >= MAX_BATCHES: false whenever MAX_BATCHES converts to NaN
AtLeast(index, limit) == limit # NaN /\ index >= limit

\* process.env.LIMIT_PER_BATCH, scaled down
LimitPerBatch == 2

RETRY_DELAY_MS == 5000
FETCH_DELAY_DEFAULT_MS == 1000

\* neither variable is set in .env
DelayUnset == [FETCH_DELAY_MS |-> Unset, FETCH_DEPLAY_MS |-> Unset]

\* const FETCH_DELAY_MS = process.env.FETCH_DEPLAY_MS || 1000
FETCH_DELAY_MS ==
    IF Falsy(delayEnv.FETCH_DEPLAY_MS) THEN FETCH_DELAY_DEFAULT_MS
    ELSE ToNumber(delayEnv.FETCH_DEPLAY_MS[1])

MAX_BATCHES ==
    IF Falsy(maxBatchesEnv) THEN NoLimit ELSE ToNumber(maxBatchesEnv[1])

\* Channel messages the API may answer a request with: the n newest
\* messages older than the cursor, newest first (no cursor: the latest).
Older(before) == IF before = 0 THEN 1..history ELSE 1..(before - 1)

Page(before, n) ==
    LET top == Cardinality(Older(before)) IN [i \in 1..n |-> top + 1 - i]

Pages(before) ==
    LET avail == Cardinality(Older(before))
        most == IF avail < LimitPerBatch THEN avail ELSE LimitPerBatch
    IN  IF avail = 0 THEN {<< >>} ELSE {Page(before, n) : n \in 1..most}

\* What fetchMessagesBatch makes of a response: the array itself, [] for a
\* successful response whose body is no array, a throw for anything else.
FetchResults(before) ==
    [kind : {"array"}, msgs : Pages(before)]
    \cup {[kind |-> "notArray", msgs |-> << >>], [kind |-> "error", msgs |-> << >>]}

\* Mutant: the retry forgets the cursor and asks for the latest messages.
RetryCursorNull(before) == 0

\* the cursor the retry passes: { before: beforeId }
RetryCursor(before) == before

\* Mutant: the cursor is the id of the first message of the batch.
NextCursorFirst(msgs) == msgs[1]

\* Mutant: the cursor is left where it was.
NextCursorKept(msgs) == beforeId

\* beforeId = messages[count - 1].id
NextCursor(msgs) == msgs[Len(msgs)]

Log(attempt, before, r) ==
    fetchLog' = Append(fetchLog, [batch |-> batchIndex, before |-> before,
                                  attempt |-> attempt, waited |-> lastSleep,
                                  failed |-> (r.kind = "error")])

JobFrame ==
    UNCHANGED <<dlVars, since, history, maxBatchesEnv, delayEnv, apiVars, rwVars, startVars, pathVars>>

\* a step of the job that calls no sendJobUpdate
Quiet ==
    /\ UNCHANGED <<activeJobs, sink, sinkJob, received, jobLog, ackCount>>

\* Mutant: a call made while the job has no subscriber list does not return.
ReturnsOnlyWithEntry(st, jobId) == jobId \in DOMAIN st.aj

\* sendJobUpdate returns to runExportProcess whatever the registry holds:
\* at once when the job has no entry, and a write that throws is caught
SendJobUpdateReturns(st, jobId) == TRUE

Publish(statuses) ==
    /\ SendJobUpdateReturns(St, JobId)
    /\ SetSt(sendJobUpdates(St, JobId, statuses))

\* finally { delete activeJobs[jobId] }
Finally(st) == [st EXCEPT !.aj = RemoveKey(@, JobId)]

\* The head of the while loop, entered with `events` still to be published.
LoopHead(events, index) ==
    IF MAX_BATCHES # NoLimit /\ AtLeast(index, MAX_BATCHES)
    THEN /\ capHit' = TRUE
         /\ Publish(events \o <<"progress">>)
         /\ jobPc' = "render"
    ELSE /\ UNCHANGED capHit
         /\ Publish(events \o <<"progress">>)
         /\ jobPc' = "fetch"

\* Mutant: the marker file is not written.
WriteMarkerSkipped(files, name) == files

\* await fs.writeFile(path.join(exportDir, name), ...) resolved
WriteMarker(files, name) == files \cup {name}

\* processed_html/ before the job created its directories
NoHtml == [dir |-> "absent", rendered |-> "no", pages |-> {}]

\* POST /start-export calls runExportProcess, which runs to its first await.
Start ==
    /\ jobPc = "idle"
    /\ Publish(<<"starting">>)
    /\ jobPc' = "mkdirs"
    /\ UNCHANGED <<beforeId, batchIndex, totalMessagesFetched, messages, batches,
                   fetchLog, lastSleep, markers, writeFails, capHit, downloadsDir,
                   dlEvents, processedFiles,
                   htmlOut>>
    /\ UNCHANGED inFlight
    /\ JobFrame

\* 1. Create Directories
MkDirs(ok) ==
    /\ jobPc = "mkdirs"
    /\ IF ok
       THEN /\ LoopHead(<<"progress", "progress">>, batchIndex)
            \* await fs.mkdir(htmlDir, { recursive: true })
            /\ htmlOut' = [htmlOut EXCEPT !.dir = "present"]
       ELSE /\ Publish(<<"error">>)
            /\ jobPc' = "catchWrite"
            /\ UNCHANGED <<capHit, htmlOut>>
    /\ UNCHANGED <<beforeId, batchIndex, totalMessagesFetched, messages, batches,
                   fetchLog, lastSleep, markers, writeFails, downloadsDir,
                   dlEvents, processedFiles>>
    /\ UNCHANGED inFlight
    /\ JobFrame

\* Mutant: an empty batch does not leave the loop.
NoMoreMessagesNever(count) == FALSE

\* if (count === 0) { ... break; }
NoMoreMessages(count) == count = 0

\* const count = messages.length ... if (count === 0) break
Fetched(msgs) ==
    /\ totalMessagesFetched' = totalMessagesFetched + Len(msgs)
    /\ messages' = msgs
    /\ IF NoMoreMessages(Len(msgs))
       THEN /\ Publish(<<"progress", "progress", "progress">>)
            /\ jobPc' = "render"
            /\ UNCHANGED batches
       ELSE /\ Publish(<<"progress">>)
            /\ jobPc' = "writeRaw"
            /\ batches' = Append(batches, msgs)

\* messages = await fetchMessagesBatch(..., { before: beforeId })
Fetch(r) ==
    /\ jobPc = "fetch"
    \* every batch before this one held a message of the history
    /\ batchIndex <= MaxHistory
    /\ r \in FetchResults(beforeId)
    /\ Log(1, beforeId, r)
    /\ lastSleep' = 0
    /\ IF r.kind = "error"
       THEN /\ Publish(<<"warning">>)
            /\ jobPc' = "retrySleep"
            /\ UNCHANGED <<totalMessagesFetched, messages, batches>>
       ELSE Fetched(r.msgs)
    /\ UNCHANGED <<beforeId, batchIndex, markers, writeFails, capHit, downloadsDir,
                   dlEvents, processedFiles,
                   htmlOut>>
    /\ UNCHANGED inFlight
    /\ JobFrame

\* await sleep(5000)
RetrySleep ==
    /\ jobPc = "retrySleep"
    /\ lastSleep' = lastSleep + RETRY_DELAY_MS
    /\ jobPc' = "retry"
    /\ UNCHANGED <<beforeId, batchIndex, totalMessagesFetched, messages, batches,
                   fetchLog, markers, writeFails, capHit, downloadsDir, dlEvents,
                   processedFiles,
                   htmlOut>>
    /\ Quiet
    /\ UNCHANGED inFlight
    /\ JobFrame

\* the second fetchMessagesBatch of the batch
Retry(r) ==
    /\ jobPc = "retry"
    /\ r \in FetchResults(RetryCursor(beforeId))
    /\ Log(2, RetryCursor(beforeId), r)
    /\ lastSleep' = 0
    /\ IF r.kind = "error"
       THEN /\ Publish(<<"error">>)
            /\ jobPc' = "abortWrite"
            /\ UNCHANGED <<totalMessagesFetched, messages, batches>>
       ELSE Fetched(r.msgs)
    /\ UNCHANGED <<beforeId, batchIndex, markers, writeFails, capHit, downloadsDir,
                   dlEvents, processedFiles,
                   htmlOut>>
    /\ UNCHANGED inFlight
    /\ JobFrame

\* Save Raw: a rejected write is only logged
WriteRaw ==
    /\ jobPc = "writeRaw"
    /\ Publish(<<"progress">>)
    /\ jobPc' = "process"
    /\ dlEvents' = 0
    \* processMessages creates downloaded_files/{avatars,emotes,attachments}
    /\ downloadsDir' = "present"
    /\ UNCHANGED <<beforeId, batchIndex, totalMessagesFetched, messages, batches,
                   fetchLog, lastSleep, markers, writeFails, capHit, processedFiles,
                   htmlOut>>
    /\ UNCHANGED inFlight
    /\ JobFrame

\* Mutant: the walk starts a download without awaiting the one before.
NotAwaited(pending) == TRUE

\* await downloadAndDeduplicateFile(...): the walk goes on to the next match
\* only when the download it started has settled
Awaited(pending) == pending = 0

\* the walk of the batch calls downloadAndDeduplicateFile
DownloadStarts ==
    /\ jobPc = "process"
    /\ Awaited(inFlight)
    /\ dlEvents + inFlight < MaxDlEvents
    /\ inFlight' = inFlight + 1
    /\ Quiet
    /\ UNCHANGED <<jobPc, beforeId, batchIndex, totalMessagesFetched, messages,
                   batches, fetchLog, lastSleep, markers, writeFails, capHit,
                   downloadsDir, dlEvents, processedFiles, htmlOut>>
    /\ JobFrame

\* a download settles without an event: a cache hit, or a failure that the
\* call site catches
DownloadSettles ==
    /\ jobPc = "process"
    /\ inFlight > 0
    /\ inFlight' = inFlight - 1
    /\ dlEvents' = dlEvents + 1
    /\ Quiet
    /\ UNCHANGED <<jobPc, beforeId, batchIndex, totalMessagesFetched, messages,
                   batches, fetchLog, lastSleep, markers, writeFails, capHit,
                   downloadsDir, processedFiles, htmlOut>>
    /\ JobFrame

\* a download of the batch reports 'Saved: ...' or 'Deduplicated: ...' and
\* settles
ProcessDownloadEvent ==
    /\ jobPc = "process"
    /\ inFlight > 0
    /\ inFlight' = inFlight - 1
    /\ dlEvents' = dlEvents + 1
    /\ Publish(<<"progress">>)
    /\ UNCHANGED <<jobPc, beforeId, batchIndex, totalMessagesFetched, messages,
                   batches, fetchLog, lastSleep, markers, writeFails, capHit,
                   downloadsDir, processedFiles,
                   htmlOut>>
    /\ JobFrame

\* processMessages returned or threw
Process(ok) ==
    /\ jobPc = "process"
    \* every download of the walk was awaited
    /\ inFlight = 0
    /\ IF ok
       THEN /\ jobPc' = "writeProcessed"
            /\ Quiet
       ELSE /\ Publish(<<"error">>)
            /\ jobPc' = "abortWrite"
    /\ UNCHANGED <<beforeId, batchIndex, totalMessagesFetched, messages, batches,
                   fetchLog, lastSleep, markers, writeFails, capHit, downloadsDir,
                   dlEvents, processedFiles,
                   htmlOut>>
    /\ UNCHANGED inFlight
    /\ JobFrame

\* Save Processed (a rejected write is only logged), then the end of the
\* loop body up to await sleep(FETCH_DELAY_MS)
WriteProcessed(ok) ==
    /\ jobPc = "writeProcessed"
    /\ processedFiles' = IF ok THEN processedFiles \cup {<<batchIndex, messages>>}
                         ELSE processedFiles
    /\ Publish(<<"progress">>)
    /\ beforeId' = NextCursor(messages)
    /\ batchIndex' = batchIndex + 1
    /\ jobPc' = "sleep"
    /\ UNCHANGED <<totalMessagesFetched, messages, batches, fetchLog, lastSleep,
                   markers, writeFails, capHit, downloadsDir, dlEvents,
                   htmlOut>>
    /\ UNCHANGED inFlight
    /\ JobFrame

\* await sleep(FETCH_DELAY_MS), then the loop head
Sleep ==
    /\ jobPc = "sleep"
    /\ lastSleep' = lastSleep + FETCH_DELAY_MS
    /\ LoopHead(<< >>, batchIndex)
    /\ UNCHANGED <<beforeId, batchIndex, totalMessagesFetched, messages, batches,
                   fetchLog, markers, writeFails, downloadsDir, dlEvents,
                   processedFiles,
                   htmlOut>>
    /\ UNCHANGED inFlight
    /\ JobFrame

\* 3. Generate HTML
Reverse(s) == [i \in 1..Len(s) |-> s[Len(s) + 1 - i]]

RECURSIVE SortDescending(_)
\* filesToProcess.sort((a, b) => b.index - a.index)
SortDescending(files) ==
    IF files = {} THEN << >>
    ELSE LET first == CHOOSE f \in files : \A g \in files : g[1] <= f[1]
         IN  <<first>> \o SortDescending(files \ {first})

\* Mutant: the messages of a page are rendered in the order of the file.
RenderPageAsStored(msgs) == msgs

\* for (let j = messages.length - 1; j >= 0; j--): the messages of a page
\* in the order they are rendered
RenderPage(msgs) == Reverse(msgs)

\* generateHtmlFiles: one processed_html_<i>.html per processed batch file, i
\* being the position of the file in the sorted list, and none when
\* processed_messages/ holds no batch file; a page is <<i, its messages>>
HtmlPages(files) ==
    LET sorted == SortDescending(files)
    IN  {<<i - 1, RenderPage(sorted[i][2])>> : i \in DOMAIN sorted}

Render(ok, pages) ==
    /\ jobPc = "render"
    \* a page that cannot be read or written is logged and skipped
    /\ pages \in SUBSET HtmlPages(processedFiles)
    /\ IF ok
       THEN /\ htmlOut' = [dir |-> "present", rendered |-> "yes", pages |-> pages]
            /\ Publish(<<"progress", "progress">>)
            /\ jobPc' = "move"
       ELSE \* mkdir, copyFile or readdir rejected
            /\ pages = {}
            /\ htmlOut' = [htmlOut EXCEPT !.rendered = "failed"]
            /\ Publish(<<"error">>)
            /\ jobPc' = "abortWrite"
    /\ UNCHANGED <<beforeId, batchIndex, totalMessagesFetched, messages, batches,
                   fetchLog, lastSleep, markers, writeFails, capHit, downloadsDir,
                   dlEvents, processedFiles>>
    /\ UNCHANGED inFlight
    /\ JobFrame

\* 4. Move downloaded_files
Move(ok) ==
    /\ jobPc = "move"
    /\ IF downloadsDir = "absent"
       THEN \* fs.access: ENOENT
            /\ ok
            /\ Publish(<<"progress">>)
            /\ jobPc' = "finalWrite"
            /\ UNCHANGED downloadsDir
       ELSE IF ok
       THEN /\ downloadsDir' = "moved"
            /\ Publish(<<"progress">>)
            /\ jobPc' = "finalWrite"
       ELSE /\ Publish(<<"warning">>)
            /\ jobPc' = "warnWrite"
            /\ UNCHANGED downloadsDir
    /\ UNCHANGED <<beforeId, batchIndex, totalMessagesFetched, messages, batches,
                   fetchLog, lastSleep, markers, writeFails, capHit, dlEvents,
                   processedFiles,
                   htmlOut>>
    /\ UNCHANGED inFlight
    /\ JobFrame

\* await fs.writeFile(EXPORT_WARNING_MOVE_FAILED.txt) inside the catch of the
\* move: a rejection leaves the try block for the top-level catch
WarnWrite(ok) ==
    /\ jobPc = "warnWrite"
    /\ IF ok
       THEN /\ markers' = WriteMarker(markers, "EXPORT_WARNING_MOVE_FAILED.txt")
            /\ jobPc' = "finalWrite"
            /\ Quiet
            /\ UNCHANGED writeFails
       ELSE /\ writeFails' = writeFails + 1
            /\ Publish(<<"error">>)
            /\ jobPc' = "catchWrite"
            /\ UNCHANGED markers
    /\ UNCHANGED <<beforeId, batchIndex, totalMessagesFetched, messages, batches,
                   fetchLog, lastSleep, capHit, downloadsDir, dlEvents, processedFiles,
                   htmlOut>>
    /\ UNCHANGED inFlight
    /\ JobFrame

\* Mutant: complete is published before the marker write is awaited.
CompleteBeforeMarker == <<"complete", "error">>

\* What a rejected write of EXPORT_SUCCESS.txt makes the job publish: the
\* sendJobUpdate of complete stands after the awaited write and is skipped,
\* the top-level catch publishes error
PublishedOnRejectedMarker == <<"error">>

\* 5. Mark Complete: write EXPORT_SUCCESS.txt, publish complete, finally
FinalWrite(ok) ==
    /\ jobPc = "finalWrite"
    /\ IF ok
       THEN /\ markers' = WriteMarker(markers, "EXPORT_SUCCESS.txt")
            /\ SetSt(Finally(sendJobUpdates(St, JobId, <<"complete">>)))
            /\ jobPc' = "done"
            /\ UNCHANGED writeFails
       ELSE /\ writeFails' = writeFails + 1
            /\ Publish(PublishedOnRejectedMarker)
            /\ jobPc' = "catchWrite"
            /\ UNCHANGED markers
    /\ UNCHANGED <<beforeId, batchIndex, totalMessagesFetched, messages, batches,
                   fetchLog, lastSleep, capHit, downloadsDir, dlEvents, processedFiles,
                   htmlOut>>
    /\ UNCHANGED inFlight
    /\ JobFrame

\* Mutant: an abort branch does not return and the job goes on to rendering.
AbortFallsThrough == "render"

\* return; at the end of an abort branch
AfterAbort == "done"

\* await fs.writeFile(EXPORT_FAILED.txt) of an abort branch, then return;
\* a rejection leaves the try block for the top-level catch
AbortWrite(ok) ==
    /\ jobPc = "abortWrite"
    /\ IF ok
       THEN /\ markers' = WriteMarker(markers, "EXPORT_FAILED.txt")
            /\ SetSt(Finally(St))
            /\ jobPc' = AfterAbort
            /\ UNCHANGED writeFails
       ELSE /\ writeFails' = writeFails + 1
            /\ Publish(<<"error">>)
            /\ jobPc' = "catchWrite"
            /\ UNCHANGED markers
    /\ UNCHANGED <<beforeId, batchIndex, totalMessagesFetched, messages, batches,
                   fetchLog, lastSleep, capHit, downloadsDir, dlEvents, processedFiles,
                   htmlOut>>
    /\ UNCHANGED inFlight
    /\ JobFrame

\* the top-level catch after its sendJobUpdate: write EXPORT_FAILED.txt (a
\* rejection is only logged), finally
CatchWrite(ok) ==
    /\ jobPc = "catchWrite"
    /\ IF ok
       THEN /\ markers' = WriteMarker(markers, "EXPORT_FAILED.txt")
            /\ UNCHANGED writeFails
       ELSE /\ writeFails' = writeFails + 1
            /\ UNCHANGED markers
    /\ SetSt(Finally(St))
    /\ jobPc' = "done"
    /\ UNCHANGED <<beforeId, batchIndex, totalMessagesFetched, messages, batches,
                   fetchLog, lastSleep, capHit, downloadsDir, dlEvents, processedFiles,
                   htmlOut>>
    /\ UNCHANGED inFlight
    /\ JobFrame

InitJobState ==
    /\ jobPc = "idle"
    /\ beforeId = 0
    /\ batchIndex = 0
    /\ totalMessagesFetched = 0
    /\ messages = << >>
    /\ batches = << >>
    /\ fetchLog = << >>
    /\ lastSleep = 0
    /\ markers = {}
    /\ writeFails = 0
    /\ capHit = FALSE
    /\ downloadsDir = "absent"
    /\ dlEvents = 0
    /\ processedFiles = {}
    /\ htmlOut = NoHtml
    /\ inFlight = 0

\* settings of MAX_BATCHES in .env: commented out, empty, null, 0, 1, 2
MaxBatchesValues == {Unset, Set(""), Set("null"), Set("0"), Set("1"), Set("2")}

InitJob ==
    /\ InitDownloader
    /\ InitRegistry
    /\ InitJobState
    /\ InitApiState
    /\ InitRewriteState
    /\ InitStartState
    /\ InitPathState
    /\ history \in 0..MaxHistory
    /\ maxBatchesEnv \in MaxBatchesValues
    /\ delayEnv = DelayUnset

ObserverStep ==
    \/ \E s \in Sinks, j \in JobIds : Subscribe(s, j)
    \/ \E s \in Sinks : ClientDisconnect(s)
    \/ \E s \in Sinks : WriteBreaks(s)
    \/ \E s \in Sinks : CloseHandler(s)

JobStepNoFetch ==
    \/ Start
    \/ \E ok \in BOOLEAN : MkDirs(ok)
    \/ RetrySleep
    \/ WriteRaw
    \/ DownloadStarts
    \/ DownloadSettles
    \/ ProcessDownloadEvent
    \/ \E ok \in BOOLEAN : Process(ok)
    \/ \E ok \in BOOLEAN : WriteProcessed(ok)
    \/ Sleep
    \/ \E ok \in BOOLEAN, pages \in SUBSET HtmlPages(processedFiles) : Render(ok, pages)
    \/ \E ok \in BOOLEAN : Move(ok)
    \/ \E ok \in BOOLEAN : WarnWrite(ok)
    \/ \E ok \in BOOLEAN : FinalWrite(ok)
    \/ \E ok \in BOOLEAN : AbortWrite(ok)
    \/ \E ok \in BOOLEAN : CatchWrite(ok)

JobStep ==
    \/ JobStepNoFetch
    \/ \E r \in FetchResults(beforeId) : Fetch(r)
    \/ \E r \in FetchResults(RetryCursor(beforeId)) : Retry(r)

NextJob == JobStep

\* The background job alone, for every channel and MAX_BATCHES setting.
SpecJob == InitJob /\ [][NextJob]_vars

\* fetchMessagesBatch when no request fails
FetchSucceeds(before) == {r \in FetchResults(before) : r.kind # "error"}

\* The steps of a job none of whose fetches fails: the retry is never entered.
JobStepNoFetchError ==
    \/ Start
    \/ \E ok \in BOOLEAN : MkDirs(ok)
    \/ \E r \in FetchSucceeds(beforeId) : Fetch(r)
    \/ WriteRaw
    \/ DownloadStarts
    \/ DownloadSettles
    \/ ProcessDownloadEvent
    \/ \E ok \in BOOLEAN : Process(ok)
    \/ \E ok \in BOOLEAN : WriteProcessed(ok)
    \/ Sleep
    \/ \E ok \in BOOLEAN, pages \in SUBSET HtmlPages(processedFiles) : Render(ok, pages)
    \/ \E ok \in BOOLEAN : Move(ok)
    \/ \E ok \in BOOLEAN : WarnWrite(ok)
    \/ \E ok \in BOOLEAN : FinalWrite(ok)
    \/ \E ok \in BOOLEAN : AbortWrite(ok)
    \/ \E ok \in BOOLEAN : CatchWrite(ok)

NextLive == JobStepNoFetchError

\* Every await of the job settles (the request has a timeout, the sleeps are
\* timers, the file operations complete or reject), so the job keeps taking
\* its next step.
SpecLive == InitJob /\ [][NextLive]_vars /\ WF_vars(NextLive)

\* settings of the inter-batch delay in .env: the documented variable and the
\* one the code reads, each commented out or set to 2 (ms)
DelayEnvs == [FETCH_DELAY_MS : {Unset, Set("2")}, FETCH_DEPLAY_MS : {Unset, Set("2")}]

InitDelay ==
    /\ InitDownloader
    /\ InitRegistry
    /\ InitJobState
    /\ InitApiState
    /\ InitRewriteState
    /\ InitStartState
    /\ InitPathState
    /\ history \in 0..MaxHistory
    /\ maxBatchesEnv = Unset
    /\ delayEnv \in DelayEnvs

NextDelay == JobStepNoFetchError

\* The job without a fetch error, for every setting of the delay.
SpecDelay == InitDelay /\ [][NextDelay]_vars

InitSSE ==
    /\ InitDownloader
    /\ InitRegistry
    /\ InitJobState
    /\ InitApiState
    /\ InitRewriteState
    /\ InitStartState
    /\ InitPathState
    /\ history = 0
    /\ maxBatchesEnv = Unset
    /\ delayEnv = DelayUnset

\* The steps runExportProcess can take when the channel has no message.
JobStepEmptyChannel ==
    \/ Start
    \/ \E ok \in BOOLEAN : MkDirs(ok)
    \/ \E r \in FetchResults(beforeId) : Fetch(r)
    \/ RetrySleep
    \/ \E r \in FetchResults(RetryCursor(beforeId)) : Retry(r)
    \/ \E ok \in BOOLEAN, pages \in SUBSET HtmlPages(processedFiles) : Render(ok, pages)
    \/ \E ok \in BOOLEAN : Move(ok)
    \/ \E ok \in BOOLEAN : FinalWrite(ok)
    \/ \E ok \in BOOLEAN : AbortWrite(ok)
    \/ \E ok \in BOOLEAN : CatchWrite(ok)

NextSSE ==
    \/ ObserverStep
    \/ JobStepEmptyChannel

\* The job of an empty channel together with its observers.
SpecSSE == InitSSE /\ [][NextSSE]_vars

InitApi ==
    /\ InitDownloader
    /\ InitRegistry
    /\ InitJobState
    /\ InitApiState
    /\ InitRewriteState
    /\ InitStartState
    /\ InitPathState
    /\ history = 0
    /\ maxBatchesEnv = Unset
    /\ delayEnv = DelayUnset

NextApi ==
    \/ \E req \in ApiRequests : makeDiscordRequest(req)
    \/ \E resp \in Responses : Respond(resp)
    \/ RateLimitWait

SpecApi == InitApi /\ [][NextApi]_vars

InitRewrite ==
    /\ InitDownloader
    /\ InitRegistry
    /\ InitJobState
    /\ InitApiState
    /\ history = 0
    /\ maxBatchesEnv = Unset
    /\ delayEnv = DelayUnset
    /\ rwEntry \in {"processMessages", "processDataRecursively"}
    /\ rwGraph \in Graphs
    /\ rwOrig \in Strings
    /\ rwCur = rwOrig
    /\ rwPc = "idle"
    /\ rwCause = "none"
    /\ rwDone = 0
    /\ rwFailed = {}
    /\ rwCache = {}
    /\ rwUser \in UserObjects
    /\ rwAvatar = rwUser.avatar
    /\ rwRaw = rwUser.avatar
    /\ rwAuthor = [resolved |-> 0, scanned |-> 0, keys |-> FALSE]
    /\ rwTree = [node |-> "none", kids |-> << >>]
    /\ rwNet = NoMatch
    /\ InitStartState
    /\ InitPathState

NextRewrite ==
    \/ \E ok \in BOOLEAN : processMessages(ok)
    \/ JsonCopy
    \/ processDataRecursively
    \/ \E ok \in BOOLEAN : UrlMatch(ok)
    \/ \E found \in 0..Len(Extensions), ok \in BOOLEAN : EmoteMatch(found, ok)
    \/ \E ok \in BOOLEAN : processUserAvatar(ok)
    \/ AuthorKeys
    \/ WalkReturns

\* One batch of one message handed to the rewriter.
SpecRewrite == InitRewrite /\ [][NextRewrite]_vars

\* content strings with a GIF-host URL among their parts
GifStrings ==
    SeqsUpTo({"https://cdn.example/a.png"} \cup GifTokens \cup EmoteTokens, MaxTokens)
        \ {<< >>}

InitGif ==
    /\ InitDownloader
    /\ InitRegistry
    /\ InitJobState
    /\ InitApiState
    /\ history = 0
    /\ maxBatchesEnv = Unset
    /\ delayEnv = DelayUnset
    /\ rwEntry \in {"processMessages", "processDataRecursively"}
    /\ rwGraph \in Graphs
    /\ rwOrig \in GifStrings
    /\ rwCur = rwOrig
    /\ rwPc = "idle"
    /\ rwCause = "none"
    /\ rwDone = 0
    /\ rwFailed = {}
    /\ rwCache = {}
    /\ rwUser = [id |-> UserId, username |-> Str(<<"u">>),
                 avatar |-> Str(Hash(MIN_AVATAR_HASH_LENGTH))]
    /\ rwAvatar = rwUser.avatar
    /\ rwRaw = rwUser.avatar
    /\ rwAuthor = [resolved |-> 0, scanned |-> 0, keys |-> FALSE]
    /\ rwTree = [node |-> "none", kids |-> << >>]
    /\ rwNet = NoMatch
    /\ InitStartState
    /\ InitPathState

NextGif == NextRewrite

\* The rewriter on strings that mix GIF-host URLs with other URLs.
SpecGif == InitGif /\ [][NextGif]_vars

InitStart ==
    /\ InitDownloader
    /\ InitRegistry
    /\ InitJobState
    /\ InitApiState
    /\ InitRewriteState
    /\ history = 0
    /\ maxBatchesEnv = Unset
    /\ delayEnv = DelayUnset
    /\ InitStartState
    /\ InitPathState

NextStart ==
    \/ \E t \in ClockReadings : Tick(t)
    \/ \E channelId \in ChannelIds : StartExport(channelId)
    \/ \E o \in Observers, k \in 1..MaxExports : Watch(o, k)
    \/ \E k \in 1..MaxExports : ExportPublishes(k)
    \/ \E k \in 1..MaxExports : ExportEnds(k)

\* Several exports started over time, their observers and directories.
SpecStart == InitStart /\ [][NextStart]_vars

InitPath ==
    /\ InitDownloader
    /\ InitRegistry
    /\ InitJobState
    /\ InitApiState
    /\ InitRewriteState
    /\ InitStartState
    /\ history = 0
    /\ maxBatchesEnv = Unset
    /\ delayEnv = DelayUnset
    /\ pathIn \in PathInputs
    /\ pathPc = "called"
    /\ pathOut = << >>
    /\ pathCache = << >>

NextPath == PathStep

\* One download per platform, directory, url extension and forced extension.
SpecPath == InitPath /\ [][NextPath]_vars

InitDL ==
    /\ InitDownloader
    /\ InitRegistry
    /\ InitJobState
    /\ InitApiState
    /\ InitRewriteState
    /\ InitStartState
    /\ InitPathState
    /\ history = 0
    /\ maxBatchesEnv = Unset
    /\ delayEnv = DelayUnset

NextDL ==
    \/ processMessagesBegin
    \/ processMessagesEnd
    \/ \E req \in Requests : downloadAndDeduplicateFile(req)

SpecDL == InitDL /\ [][NextDL]_vars

-----------------------------------------------------------------------------
(* Properties of the downloader (SpecDL) *)

RECURSIVE SumOver(_, _)
SumOver(f, S) ==
    IF S = {} THEN 0
    ELSE LET x == CHOOSE y \in S : TRUE IN f[x] + SumOver(f, S \ {x})

TotalGets == SumOver(getCount, Urls)
TotalOk == SumOver(okCount, Urls)

\* C1 as stated: the number of HTTP GETs issued by downloadAndDeduplicateFile
\* never exceeds the number of distinct urls encountered, whatever succeeds
\* or fails.
C1_GetsAtMostDistinctUrls == TotalGets <= Cardinality(seenUrls)

\* C1 amended: the GETs never exceed the distinct urls encountered plus the
\* download calls that failed, and the downloads that completed never exceed
\* the distinct urls encountered (a failed url is requested again when it
\* occurs again; only a completed download is cached).
C1_GetsAtMostDistinctPlusFailed ==
    /\ TotalGets <= Cardinality(seenUrls) + failCount
    /\ TotalOk <= Cardinality(seenUrls)

\* C1 witness: one url occurred three times in the job: its first download
\* failed after the GET, the second completed, the third was a cache hit.
C1_Witness ==
    \E u \in Urls :
        /\ getCount[u] = 2 /\ okCount[u] = 1 /\ failCount = 1
        /\ calls = 3 /\ seenUrls = {u} /\ lastCall.hit

\* C2: at most one completed download per url; once a url is in the cache
\* every later call for it, in the same or a later batch, issues no GET,
\* leaves the cache entry alone and returns the cached path, so all paths
\* returned for one url are the same path.
C2_OneDownloadSamePath ==
    /\ [](\A u \in Urls : okCount[u] <= 1 /\ Cardinality(returned[u]) <= 1)
    /\ [][\A u \in DOMAIN downloadCache :
             /\ getCount'[u] = getCount[u]
             /\ u \in DOMAIN downloadCache'
             /\ downloadCache'[u] = downloadCache[u]
             /\ returned'[u] = {downloadCache[u]}]_vars

\* C2 witness: a url downloaded in the first batch is asked for again in the
\* second batch and answered from the cache.
C2_Witness ==
    /\ lastCall.hit
    /\ lastCall.url \in DOMAIN gotContent
    /\ gotContent[lastCall.url].batch = 1
    /\ batchNo = 2
    /\ calls >= 2
    /\ getCount[lastCall.url] = 1

SameBytes(u1, u2) == gotContent[u1].bytes = gotContent[u2].bytes

FilesHolding(bytes) == {p \in DOMAIN disk : disk[p] = bytes}

DirOf(relativePath) == relativePath[2]
ExtOf(relativePath) == relativePath[3][2]

-----------------------------------------------------------------------------
(* Properties of the SSE registry and the job's events (SpecSSE) *)

JobEvents(s) == SelectSeq(received[s], LAMBDA e : e.by = "job")

TerminalEvents(s) == SelectSeq(JobEvents(s), LAMBDA e : e.status \in Terminal)

\* The observer subscribed when the job had published nothing but
\* `starting`, and is still open.
ConnectedThroughout(s) ==
    /\ sink[s] = "open"
    /\ sinkJob[s] = JobId
    /\ since[s].job <= 1

\* C4: when the job has ended, every observer connected throughout has
\* received exactly one terminal event (complete or error), and that event is
\* the last event of the job it received, whatever the outcomes of the fetch,
\* render and file-write steps were.
C4_OneTerminalEventLast ==
    jobPc = "done" =>
        \A s \in Sinks : ConnectedThroughout(s) =>
            /\ Len(TerminalEvents(s)) = 1
            /\ JobEvents(s)[Len(JobEvents(s))].status \in Terminal

\* The events one step publishes for a job id, in order.
PublishedInStep(j) ==
    IF ackCount'[j] # ackCount[j]
    THEN <<[by |-> "http", status |-> "connected", n |-> ackCount'[j]]>>
    ELSE IF j = JobId
    THEN [i \in 1..(Len(jobLog') - Len(jobLog)) |->
            [by |-> "job", status |-> jobLog'[Len(jobLog) + i], n |-> Len(jobLog) + i]]
    ELSE << >>

\* The events one step writes to a response.
WrittenInStep(s) == SubSeq(received'[s], Len(received[s]) + 1, Len(received'[s]))

\* The responses that have subscribed to a job id and are open.
OpenFor(j) == {s \in Sinks : sink[s] = "open" /\ sinkJob[s] = j}

\* C5 as stated: every event published for a job id is written exactly once
\* to every response that has subscribed to it and is still open.
C5_EveryEventOnceToOpenSinks ==
    [][\A j \in JobIds : \A s \in OpenFor(j) : WrittenInStep(s) = PublishedInStep(j)]_vars

\* C5: every event published for a job id, before a runExportProcess run
\* with that id has ended, is written exactly once to every response that has
\* subscribed to it and is still open; so two concurrent subscribers both
\* receive every progress event published after they connect.
C5_EveryEventOnceWhileJobRuns ==
    [][\A j \in JobIds : \A s \in OpenFor(j) :
         ~(j = JobId /\ jobPc = "done") => WrittenInStep(s) = PublishedInStep(j)]_vars

C5_Witness ==
    /\ \A s \in Sinks : sink[s] = "open" /\ sinkJob[s] = JobId
    /\ \E i \in DOMAIN jobLog :
         /\ jobLog[i] = "progress"
         /\ \A s \in Sinks :
              [by |-> "job", status |-> "progress", n |-> i] \in Range(received[s])

\* The events published for the response's job id before it subscribed.
IsReplay(s, e) ==
    IF e.by = "job" THEN e.n <= since[s].job ELSE e.n <= since[s].ack

\* The response subscribed after the job had published its last event.
SubscribedAfterLastEvent(s) ==
    /\ jobPc = "done"
    /\ sink[s] # "idle"
    /\ sinkJob[s] = JobId
    /\ since[s].job = Len(jobLog)

\* C6: a response receives none of the events published before it
\* subscribed, and a response that subscribes after the job has completed
\* receives connected acknowledgments only.
C6_NoReplay ==
    \A s \in Sinks :
        /\ \A i \in DOMAIN received[s] : ~IsReplay(s, received[s][i])
        /\ SubscribedAfterLastEvent(s) =>
             \A i \in DOMAIN received[s] : received[s][i].status = "connected"

C6_Witness ==
    /\ jobPc = "done"
    /\ sink["res1"] = "open" /\ sinkJob["res1"] = JobId
    /\ since["res1"].job >= 2
    /\ JobEvents("res1") # << >>
    /\ sink["res2"] = "open" /\ sinkJob["res2"] = JobId
    /\ SubscribedAfterLastEvent("res2")
    /\ received["res2"] # << >>

\* C20: observers do not affect the job. Whatever the observers did, all of
\* them gone included, the job that has not ended can take its next step,
\* and no step of an observer (subscribe, disconnect, broken connection,
\* close) changes the job's position, counters, files or markers.
C20_ObserversDoNotAffectJob ==
    /\ [](jobPc # "done" => ENABLED JobStepEmptyChannel)
    /\ [][ObserverStep => UNCHANGED <<jobPc, beforeId, batchIndex, totalMessagesFetched,
                                       messages, batches, fetchLog, markers, writeFails,
                                       capHit, downloadsDir, processedFiles>>]_vars

\* Both observers had subscribed to the job and are gone, the job has no
\* subscriber list any more, and it is about to write its success marker.
C20_Witness ==
    /\ \A s \in Sinks : sink[s] = "closed" /\ sinkJob[s] = JobId
    /\ JobId \notin DOMAIN activeJobs
    /\ jobPc = "finalWrite"
    /\ ENABLED FinalWrite(TRUE)

\* The responses in the job's list.
Listed(aj, j) == IF j \in DOMAIN aj THEN Range(aj[j]) ELSE {}

\* C21: a step that publishes for a job id writes the event to every listed
\* response that is live and to no other listed response; when
\* sendJobUpdate has returned the list holds exactly the responses that were
\* live at publish time (listed before, or subscribing in this step), and a
\* list left empty is deleted with its entry.
C21_PublishWritesAndPrunes ==
    [][\A j \in JobIds :
         (PublishedInStep(j) # << >> /\ ~(j = JobId /\ jobPc' = "done")) =>
             /\ \A s \in Listed(activeJobs, j) :
                  IF sink[s] = "open"
                  THEN /\ WrittenInStep(s) = PublishedInStep(j)
                       /\ s \in Listed(activeJobs', j)
                  ELSE /\ WrittenInStep(s) = << >>
                       /\ s \notin Listed(activeJobs', j)
             /\ \A s \in Listed(activeJobs', j) :
                  /\ sink'[s] = "open"
                  /\ s \in Listed(activeJobs, j) \/ sink[s] = "idle"
             /\ j \in DOMAIN activeJobs' => activeJobs'[j] # << >>]_vars

\* A publish of the job found one response failing on write and ended it,
\* and wrote the event to the other, which is the only one listed now.
C21_Witness ==
    \E s, t \in Sinks :
        /\ sink[s] = "ended" /\ sinkJob[s] = JobId
        /\ sink[t] = "open" /\ sinkJob[t] = JobId
        /\ JobId \in DOMAIN activeJobs
        /\ activeJobs[JobId] = <<t>>
        /\ \E i \in DOMAIN received[t] : received[t][i].by = "job"

\* C23: an observer connected throughout the job that has received a
\* progress event of the job has received the starting event, and before
\* every progress event.
C23_StartingBeforeProgress ==
    \A s \in Sinks :
        (ConnectedThroughout(s) /\ \E k \in DOMAIN JobEvents(s) : JobEvents(s)[k].status = "progress") =>
            \E i \in DOMAIN JobEvents(s) :
                /\ JobEvents(s)[i].status = "starting"
                /\ \A k \in DOMAIN JobEvents(s) : JobEvents(s)[k].status = "progress" => i < k

-----------------------------------------------------------------------------
(* Properties of the fetch loop (SpecJob, SpecLive) *)

LastFetch == fetchLog[Len(fetchLog)]

\* Both attempts of the last batch failed.
RetryFailed == fetchLog # << >> /\ LastFetch.attempt = 2 /\ LastFetch.failed

\* C7: a failed fetch of a batch is followed by exactly one retry, made after
\* the fixed delay with the same cursor and whatever happened in earlier
\* batches; a successful retry continues the loop as a successful first fetch
\* does; after a failed retry an error event is published, no further fetch
\* is made, nothing is rendered or finalized, and the job ends with
\* EXPORT_FAILED.txt written unless the file system rejected the write.
C7_RetryOncePerBatch ==
    /\ [](/\ \A i \in DOMAIN fetchLog :
               /\ fetchLog[i].attempt \in {1, 2}
               /\ fetchLog[i].attempt = 2 =>
                    /\ i > 1
                    /\ fetchLog[i - 1].attempt = 1
                    /\ fetchLog[i - 1].failed
                    /\ fetchLog[i - 1].batch = fetchLog[i].batch
                    /\ fetchLog[i - 1].before = fetchLog[i].before
                    /\ fetchLog[i].waited = RETRY_DELAY_MS
               /\ (fetchLog[i].failed /\ i < Len(fetchLog)) =>
                    fetchLog[i].attempt = 1 /\ fetchLog[i + 1].attempt = 2
          /\ (fetchLog # << >> /\ LastFetch.attempt = 1 /\ LastFetch.failed) =>
               jobPc \in {"retrySleep", "retry"}
          /\ RetryFailed =>
               /\ jobPc \in {"abortWrite", "catchWrite", "done"}
               /\ "error" \in Range(jobLog)
               /\ "complete" \notin Range(jobLog)
               /\ "EXPORT_SUCCESS.txt" \notin markers
               /\ jobPc = "done" =>
                    "EXPORT_FAILED.txt" \in markers \/ writeFails > 0)
    /\ [][(jobPc = "retry" /\ ~LastFetch'.failed) =>
            jobPc' = IF messages' = << >> THEN "render" ELSE "writeRaw"]_vars

C7_Witness ==
    /\ jobPc = "done"
    /\ "EXPORT_FAILED.txt" \in markers
    /\ RetryFailed
    /\ LastFetch.batch = 1
    /\ \E i \in DOMAIN fetchLog :
         fetchLog[i].batch = 0 /\ fetchLog[i].attempt = 2 /\ ~fetchLog[i].failed

FetchedMessages == UNION {Range(batches[i]) : i \in DOMAIN batches}

\* C9: a job that succeeded without hitting the batch cap has fetched every
\* message of the history, whatever successful responses it received.
C9_SuccessMeansWholeHistory ==
    ("EXPORT_SUCCESS.txt" \in markers /\ ~capHit) => FetchedMessages = 1..history

-----------------------------------------------------------------------------
(* Properties of makeDiscordRequest (SpecApi) *)

\* C10: after a 429 with a retry-after of d seconds the wait is at least d
\* seconds, the request issued after it is the caller's request again, and
\* no 429 is thrown to the caller.
C10_WaitsAtLeastRetryAfter ==
    /\ \A i \in DOMAIN apiWaits :
         apiResponses[i].retryAfter # NoHeader =>
             apiWaits[i] >= HeaderMs(apiResponses[i].retryAfter)
    /\ \A i \in DOMAIN apiIssued : apiIssued[i] = apiRequest
    /\ apiError.status # 429

LastResponse == apiResponses[Len(apiResponses)]

\* The call ended on a response whose status is neither a success nor 429.
FailedOnStatus ==
    /\ apiPc = "threw"
    /\ ~NetworkError(LastResponse)

\* C11: a response that is not ok and not 429 ends the call: the error thrown
\* carries the status and the body read from that response, and every request
\* issued before it was answered 429.
C11_OtherStatusFailsWithoutRetry ==
    /\ \A i \in DOMAIN apiResponses :
         i < Len(apiResponses) => apiResponses[i].status = 429
    /\ apiPc \in {"threw", "returned"} => Len(apiIssued) = Len(apiWaits) + 1
    /\ FailedOnStatus =>
         /\ ~Ok(LastResponse) /\ LastResponse.status # 429
         /\ apiError.status = LastResponse.status
         /\ apiError.body = ErrorBody(LastResponse)

C11_Witness ==
    /\ FailedOnStatus
    /\ LastResponse.status = 403
    /\ Len(apiWaits) = 1
    /\ apiError.status = 403

-----------------------------------------------------------------------------
(* Properties of the rewriter (SpecRewrite) *)

\* C12: when the walk has returned, the processed string holds the original
\* text at every match site whose download failed.
C12_FailedSiteKeepsText ==
    rwPc = "returned" =>
        \A site \in rwFailed \ {0} : rwCur[site] = rwOrig[site]

C17_CycleGivesSentinel ==
    (IsCircular(rwGraph) /\ rwPc \in {"returned", "threw"} /\ rwCause # "mkdir") =>
        rwPc = "returned" /\ HasSentinel(rwTree)

-----------------------------------------------------------------------------
(* Properties of several exports (SpecStart) *)

\* C15: two exports never have the same export directory, and the files of
\* a directory were written by one export only.
C15_DistinctExportDirs ==
    /\ \A i, j \in DOMAIN exports : i # j => exports[i].exportDir # exports[j].exportDir
    /\ \A dir \in DOMAIN dirFiles : Cardinality(dirFiles[dir]) <= 1

\* C16: two exports never have the same jobId, an observer of one export
\* receives events of that export only, and the subscriber list of a running
\* export is not removed when another export ends.
C16_DistinctJobIds ==
    /\ \A i, j \in DOMAIN exports : i # j => exports[i].jobId # exports[j].jobId
    /\ \A o \in Observers : gotFrom[o] \subseteq {watching[o]}
    /\ \A o \in Observers :
         (watching[o] # 0 /\ exports[watching[o]].running) =>
             /\ exports[watching[o]].jobId \in DOMAIN subscribers
             /\ o \in subscribers[exports[watching[o]].jobId]

-----------------------------------------------------------------------------
(* Properties of the relative path (SpecPath) *)

PathSafe(text) ==
    /\ text # << >>
    /\ Head(text) # "/"
    /\ "\\" \notin Range(text)
    /\ DotDot \notin Range(SplitSegs("posix", text))

\* C18: the relative path a download returns and every value of the cache
\* use "/" separators only, do not start with "/" and have no ".." segment,
\* for every url extension and every forced extension; the path is
\* downloaded_files/<directory>/<hash><sanitised extension>.
C18_RelativePathSafe ==
    pathPc = "returned" =>
        /\ PathSafe(pathOut)
        /\ \A u \in DOMAIN pathCache : PathSafe(pathCache[u])
        /\ LET url == [base |-> "https://cdn/a/x", ext |-> pathIn.ext] IN
             pathOut = AbstractPathText(
                           RelativePath(pathIn.dir,
                                        FinalFileName(MD5(pathIn.bytes),
                                                      FinalExt(DerivedExtension(url, pathIn.forced)))))

\* A forced extension made of dots and a separator was given on win32, and
\* the download returned its path.
C18_Witness ==
    /\ pathPc = "returned"
    /\ pathIn.platform = "win32"
    /\ pathIn.forced = <<".", ".", "\\">>
    /\ pathCache # << >>

\* C22: a reference whose URL is a key of the download cache (a URL of a
\* string, or the image URL of an emote) is resolved to the cached path
\* without any network request.
C22_CacheHitNoNetwork ==
    rwNet.cached => (rwNet.heads = 0 /\ rwNet.gets = 0 /\ rwNet.resolved)

\* C24: the move of downloaded_files never makes the job fail. With no
\* such directory the job goes on to its success marker and writes no
\* warning marker; when the move fails a warning is published,
\* EXPORT_WARNING_MOVE_FAILED.txt is written and the job goes on to its
\* success marker.
C24_MoveNeverFailsJob ==
    [][/\ jobPc = "move" =>
            IF downloadsDir = "absent"
            THEN jobPc' = "finalWrite" /\ markers' = markers
            ELSE \/ jobPc' = "finalWrite" /\ markers' = markers
                 \/ jobPc' = "warnWrite" /\ jobLog' = Append(jobLog, "warning")
       /\ jobPc = "warnWrite" =>
            /\ jobPc' = "finalWrite"
            /\ "EXPORT_WARNING_MOVE_FAILED.txt" \in markers']_vars


\* The summary line of EXPORT_SUCCESS.txt: Batches: ${batchIndex}. Messages:
\* ${totalMessagesFetched}.
Summary == [batches |-> batchIndex, messages |-> totalMessagesFetched]

\* The first batch of the job was fetched and held no message.
EmptyFirstBatch ==
    /\ fetchLog # << >>
    /\ ~fetchLog[Len(fetchLog)].failed
    /\ totalMessagesFetched = 0

AvatarProcessed == rwPc \in {"walk", "returned"} /\ rwDone >= Len(Work(rwOrig)) - 1

\* C26: after rewriting, the avatar field of a user-shaped object is the
\* local relative path of the downloaded avatar or null: null when the hash
\* is absent, not a string, shorter than 10 characters or when the download
\* failed, the local path otherwise, and never the raw hash or the CDN URL.
C26_AvatarLocalOrNull ==
    (isUserObject(rwUser) /\ AvatarProcessed) =>
        LET hash == rwUser.avatar
            unusable == \/ hash.type # "string"
                        \/ Len(hash.text) < MIN_AVATAR_HASH_LENGTH
        IN /\ rwAvatar \in {Null, LocalAvatarPath("gif"), LocalAvatarPath("png")}
           /\ (unusable \/ 0 \in rwFailed) => rwAvatar = Null
           /\ (~unusable /\ 0 \notin rwFailed) =>
                 rwAvatar = LocalAvatarPath(constructAvatarCdnUrl(rwUser.id, hash).ext)
           /\ hash.type = "string" => rwAvatar # hash
           /\ rwAvatar # Str(constructAvatarCdnUrl(rwUser.id, hash).url)

\* A user-shaped author whose avatar hash has nine characters was rewritten.
C26_Witness ==
    /\ isUserObject(rwUser)
    /\ rwUser.avatar = Str(Hash(MIN_AVATAR_HASH_LENGTH - 1))
    /\ AvatarProcessed
    /\ rwAvatar = Null

\* A batch count is configured: MAX_BATCHES is set to a numeral.
LimitConfigured == MAX_BATCHES # NoLimit /\ MAX_BATCHES # NaN

\* the batches the job asked Discord for (a retry asks for the same batch)
BatchesFetched == {i \in DOMAIN fetchLog : fetchLog[i].attempt = 1}

AfterLoop == {"render", "move", "warnWrite", "finalWrite", "abortWrite", "catchWrite", "done"}

\* what holds in every state of a job with a configured batch count
LimitRespected ==
    LimitConfigured =>
        /\ Cardinality(BatchesFetched) <= MAX_BATCHES
        /\ Len(batches) <= MAX_BATCHES
        /\ batchIndex <= MAX_BATCHES
        /\ Cardinality(processedFiles) <= MAX_BATCHES
        /\ capHit => batchIndex = MAX_BATCHES /\ jobPc \in AfterLoop
        /\ (capHit /\ jobPc \in {"abortWrite", "catchWrite"}) =>
              htmlOut.rendered = "failed" \/ writeFails > 0
        /\ (capHit /\ jobPc = "done") =>
              \/ "EXPORT_SUCCESS.txt" \in markers
              \/ htmlOut.rendered = "failed"
              \/ writeFails > 0

\* C27: with a batch count N configured the job fetches and processes at
\* most N batches; reaching the limit leaves the loop for rendering in a
\* step that writes no marker, and the job then ends with EXPORT_SUCCESS.txt
\* unless rendering or a file write is rejected later.
C27_BatchLimit ==
    /\ []LimitRespected
    /\ [][(capHit' /\ ~capHit) =>
            /\ jobPc' = "render"
            /\ UNCHANGED <<markers, writeFails, batchIndex, batches, fetchLog>>]_vars

\* A job limited to one batch stopped at the limit with messages left in the
\* channel, and wrote its success marker.
C27_Witness ==
    /\ maxBatchesEnv = Set("1")
    /\ capHit
    /\ Len(batches) = 1
    /\ totalMessagesFetched < history
    /\ jobPc = "done"
    /\ "EXPORT_SUCCESS.txt" \in markers

\* C28: with MAX_BATCHES unset, set to null or set to 0 the loop is never
\* left through the batch limit: it runs until a batch is empty.
C28_NoLimitWhenUnsetNullOrZero ==
    maxBatchesEnv \in {Unset, Set("null"), Set("0")} => ~capHit

\* The phase of the job at a position of runExportProcess; the abort
\* branches and the top-level catch are on the way to failed.
PhaseOf(pc) ==
    CASE pc = "idle" -> "created"
      [] pc = "mkdirs" -> "starting"
      [] pc \in {"fetch", "retrySleep", "retry"} -> "fetching"
      [] pc \in {"writeRaw", "process", "writeProcessed", "sleep"} -> "processing"
      [] pc = "render" -> "rendering"
      [] pc \in {"move", "warnWrite"} -> "moving-assets"
      [] pc = "finalWrite" -> "finalizing"
      [] pc \in {"abortWrite", "catchWrite"} -> "failing"
      [] OTHER -> "returned"

Phase ==
    IF jobPc # "done" THEN PhaseOf(jobPc)
    ELSE IF "EXPORT_SUCCESS.txt" \in markers THEN "succeeded" ELSE "failed"

\* the phase changes of a job: the order of the stages, the loop between
\* fetching and processing, and the way to failed from every stage
PhaseEdges ==
    {<<"created", "starting">>,
     <<"starting", "fetching">>, <<"starting", "rendering">>,
     <<"fetching", "processing">>, <<"processing", "fetching">>,
     <<"fetching", "rendering">>, <<"processing", "rendering">>,
     <<"rendering", "moving-assets">>,
     <<"moving-assets", "finalizing">>,
     <<"finalizing", "succeeded">>,
     <<"failing", "failed">>}
    \cup {<<p, "failing">> : p \in {"starting", "fetching", "processing", "rendering",
                                    "moving-assets", "finalizing"}}

LoopPhases == {"fetching", "processing"}

\* C29: every job goes through starting, the fetching/processing loop,
\* rendering, moving-assets and finalizing in this order and ends succeeded
\* or failed: each step stays in its phase or follows an edge of the order, so
\* rendering starts only when the loop is left, nothing is fetched or
\* processed once rendering has started, succeeded is entered from finalizing
\* only, and no step of the job (no event, no file write) follows succeeded or
\* failed.
C29_PhaseOrder ==
    [][/\ Phase' # Phase => <<Phase, Phase'>> \in PhaseEdges
       /\ Phase \notin {"succeeded", "failed"}
       /\ Phase \notin {"created", "starting"} \cup LoopPhases =>
             UNCHANGED <<fetchLog, batches, batchIndex, messages, beforeId,
                         totalMessagesFetched, processedFiles, dlEvents>>
       /\ "EXPORT_SUCCESS.txt" \in markers' => Phase' = "succeeded"]_vars

\* A job that processed a batch has gone through every stage and succeeded.
C29_Witness ==
    /\ Phase = "succeeded"
    /\ Len(batches) >= 1
    /\ htmlOut.rendered = "yes"
    /\ downloadsDir = "moved"

\* every batch fetched so far was rewritten and its persistence attempted
\* (the loop counts a batch right after the guarded write of its processed file)
EarlierBatchesDone == Len(batches) = batchIndex

\* C30: within one job batch k+1 is asked for only when batch k has been
\* rewritten and the write of its processed file attempted, downloads are in
\* flight only while a batch is being rewritten, never two at a time, and a
\* batch is not left while one is in flight.
C30_SequentialJob ==
    /\ [](/\ inFlight <= 1
          /\ inFlight > 0 => jobPc = "process"
          /\ jobPc \in {"fetch", "retrySleep", "retry"} => EarlierBatchesDone)
    /\ [][fetchLog' # fetchLog =>
            /\ inFlight = 0
            /\ EarlierBatchesDone
            /\ fetchLog'[Len(fetchLog')].batch = batchIndex]_vars

\* The second batch is about to be fetched after the first one was rewritten
\* with two downloads, one after the other.
C30_Witness ==
    /\ jobPc = "fetch"
    /\ batchIndex = 1
    /\ Len(batches) = 1
    /\ dlEvents >= 2
    /\ inFlight = 0

\* the messages of a rendered page, as a set
OnPage(p) == {p[2][i] : i \in DOMAIN p[2]}

\* every message of the sequence comes after all older ones (ids grow with time)
OldestFirst(msgs) == \A i, j \in DOMAIN msgs : i < j => msgs[i] < msgs[j]

\* C31: in the generated HTML every page lists its messages oldest first,
\* every message of a later page is newer than every message of an earlier
\* page, and when all pages were written page 0 holds the oldest message of
\* the export.
C31_ChronologicalHtml ==
    htmlOut.rendered = "yes" =>
        /\ \A p \in htmlOut.pages : OldestFirst(p[2])
        /\ \A p, q \in htmlOut.pages :
              p[1] < q[1] => \A a \in OnPage(p), b \in OnPage(q) : a < b
        /\ (processedFiles # {} /\ Cardinality(htmlOut.pages) = Cardinality(processedFiles)) =>
              \E p \in htmlOut.pages :
                  /\ p[1] = 0
                  /\ \A f \in processedFiles : \A i \in DOMAIN f[2] :
                        \E a \in OnPage(p) : a <= f[2][i]

\* Two batches were rendered as two pages.
C31_Witness ==
    /\ htmlOut.rendered = "yes"
    /\ Cardinality(htmlOut.pages) = 2
    /\ \E p \in htmlOut.pages : p[1] = 0 /\ p[2] = <<1>>

\* the inter-batch delay the README documents: FETCH_DELAY_MS of .env, 1000 ms
\* when it is not set
ConfiguredDelay ==
    IF Falsy(delayEnv.FETCH_DELAY_MS) THEN FETCH_DELAY_DEFAULT_MS
    ELSE ToNumber(delayEnv.FETCH_DELAY_MS[1])

\* C32: every fetch of a batch after the first was preceded by a sleep of the
\* configured FETCH_DELAY_MS (1000 ms when unset).
C32_DelayIsConfigured ==
    \A i \in DOMAIN fetchLog :
        (fetchLog[i].batch > 0 /\ fetchLog[i].attempt = 1) =>
            fetchLog[i].waited = ConfiguredDelay

\* the part at `site` is the only occurrence of its text in the string
OccursOnce(s, site) == \A k \in DOMAIN s : s[k] = s[site] => k = site

\* C33: when the walk has returned, every media-file URL of the string that
\* is not on a GIF host and whose download did not fail stands replaced by
\* its local path, whatever else the string contains, and every GIF-host URL
\* stands as it was.
C33_UrlsReplacedExceptGifHosts ==
    rwPc = "returned" =>
        \A site \in DOMAIN rwOrig :
            /\ (rwOrig[site] \in UrlTokens /\ OccursOnce(rwOrig, site)
                  /\ site \notin rwFailed) =>
                  LocalPath(rwOrig[site]) = rwCur[site]
            /\ rwOrig[site] \in GifTokens => rwCur[site] = rwOrig[site]

\* C34: processMessages does not mutate its input: while it runs and after it
\* has returned or thrown, the author's avatar in the caller's raw message is
\* what it was, whatever the walk wrote to the avatar of its copy.
C34_InputNotMutated ==
    rwEntry = "processMessages" => rwRaw = rwUser.avatar

\* processMessages returned a batch whose avatar was rewritten, and the
\* caller's message still holds the hash.
C34_Witness ==
    /\ rwEntry = "processMessages"
    /\ rwPc = "returned"
    /\ rwUser.avatar = Str(Hash(MIN_AVATAR_HASH_LENGTH))
    /\ rwAvatar = LocalAvatarPath("png")
    /\ rwRaw = rwUser.avatar

\* C35: a user-shaped object node gets its avatar resolved exactly once, and
\* that happens before the keys of the node are iterated; the key iteration
\* copies the rewritten avatar string to the output as it is, so the value is
\* never scanned for URLs or emotes and nothing is resolved a second time.
C35_AvatarResolvedOnce ==
    /\ rwAuthor.resolved <= 1
    /\ rwAuthor.scanned = 0
    /\ rwAuthor.keys /\ isUserObject(rwUser) => rwAuthor.resolved = 1
    /\ rwAuthor.resolved = 1 => isUserObject(rwUser)

C35_Witness ==
    /\ rwAuthor.keys
    /\ isUserObject(rwUser)
    /\ rwUser.avatar = Str(AnimatedHash(MIN_AVATAR_HASH_LENGTH))
    /\ rwAvatar = LocalAvatarPath("gif")
    /\ rwAuthor.resolved = 1
    /\ rwAuthor.scanned = 0

RECURSIVE MessagesIn(_)
\* the number of messages held by a set of processed-batch files
MessagesIn(files) ==
    IF files = {} THEN 0
    ELSE LET f == CHOOSE x \in files : TRUE
         IN Len(f[2]) + MessagesIn(files \ {f})

\* C36: when a job has succeeded with a summary of N batches and M messages,
\* processed_messages/ holds exactly N processed-batch files, with the batch
\* indexes 0..N-1, and together they hold M messages; batchIndex counts the
\* non-empty batches whose loop iteration has ended.
C36_ProcessedFilesMatchSummary ==
    /\ batchIndex \in {Len(batches), Len(batches) - 1}
    /\ ("EXPORT_SUCCESS.txt" \in markers) =>
          /\ Cardinality(processedFiles) = Summary.batches
          /\ {f[1] : f \in processedFiles} = 0 .. (Summary.batches - 1)
          /\ MessagesIn(processedFiles) = Summary.messages

\* The connected acknowledgments a response has been sent.
ConnectedEvents(s) == SelectSeq(received[s], LAMBDA ev : ev.status = "connected")

\* C37: a subscribe sends the connected acknowledgment to the new response
\* only, so no response is ever sent more than one connected event, and a
\* step in which another response subscribes writes nothing to a response
\* that is already subscribed.
C37_ConnectedOnlyToNewSink ==
    \A s \in Sinks : Len(ConnectedEvents(s)) <= 1

\* C38: in every state of any interleaving of subscribes, disconnects,
\* publishes and the end of the job, every job id present in activeJobs maps
\* to a non-empty list, no response is listed twice or under two job ids, and
\* a response whose close handler has run is in no list and has been written
\* nothing since.
C38_RegistryInvariant ==
    /\ \A j \in DOMAIN activeJobs :
         /\ activeJobs[j] # << >>
         /\ \A i, k \in DOMAIN activeJobs[j] : activeJobs[j][i] = activeJobs[j][k] => i = k
    /\ \A s \in Sinks :
         /\ \A j \in DOMAIN activeJobs : s \in Range(activeJobs[j]) => sinkJob[s] = j
         /\ sink[s] = "closed" =>
              /\ \A j \in DOMAIN activeJobs : s \notin Range(activeJobs[j])
              /\ received[s] = << >>

\* One response of the job was closed, the other is still listed alone and
\* has been written an event of the job.
C38_Witness ==
    \E s, t \in Sinks :
        /\ sink[s] = "closed" /\ sinkJob[s] = JobId
        /\ sink[t] = "open" /\ sinkJob[t] = JobId
        /\ JobId \in DOMAIN activeJobs
        /\ activeJobs[JobId] = <<t>>
        /\ \E i \in DOMAIN received[t] : received[t][i].by = "job"
        /\ Len(ConnectedEvents(t)) = 1

CursorFor(b) == IF b = 0 THEN 0 ELSE batches[b][Len(batches[b])]

\* C40: every fetch of a batch after the first passes as before-cursor the id
\* of the last message of the previous non-empty batch, the first passes
\* none, and a retry passes the cursor of the attempt it repeats; with an API
\* that answers newest first with messages strictly older than the cursor,
\* the cursors of successive batches strictly decrease and no message is in
\* two batches of the job, nor twice in one.
C40_CursorProgression ==
    /\ \A i \in DOMAIN fetchLog :
         /\ fetchLog[i].before = CursorFor(fetchLog[i].batch)
         /\ fetchLog[i].attempt = 2 => fetchLog[i].before = fetchLog[i - 1].before
    /\ \A i, k \in DOMAIN fetchLog :
         (0 < fetchLog[i].batch /\ fetchLog[i].batch < fetchLog[k].batch) =>
             fetchLog[k].before < fetchLog[i].before
    /\ \A a, b \in DOMAIN batches :
         /\ a # b => Range(batches[a]) \cap Range(batches[b]) = {}
         /\ \A i, k \in DOMAIN batches[a] : batches[a][i] = batches[a][k] => i = k
    /\ beforeId = CursorFor(batchIndex)

\* Two non-empty batches were fetched, the second one by a retry, and the
\* fetch after them passed the id of the oldest message.
C40_Witness ==
    /\ Len(batches) = 2
    /\ \E i \in DOMAIN fetchLog :
         fetchLog[i].attempt = 2 /\ fetchLog[i].batch = 1 /\ fetchLog[i].before = 2
    /\ \E i \in DOMAIN fetchLog : fetchLog[i].batch = 2 /\ fetchLog[i].before = 1

====
